---------------------------- MODULE Spec2Model ----------------------------
(***************************************************************************)
(* Model of the anomaly engine of aca_indice_climatico (src/src/scripts):  *)
(* month alignment and standardization, the non-finite masking of the      *)
(* temperature aggregation, the Rx5day and CDD extractors, the yearly CDD  *)
(* blending with its persisted prior-year state, and the composite index.  *)
(*                                                                         *)
(* Each part of the engine has its own specification (SpecStd, SpecPrecip, *)
(* SpecInterp, SpecBatch, SpecICA, ...); a specification holds the         *)
(* variables of the other parts at Idle.                                   *)
(***************************************************************************)
EXTENDS Integers, Sequences, FiniteSets, TLC

VARIABLES
    pc,                 \* position of the script being run
    \* --- alinear_data / anomalias (rain and drought scripts)
    data1,              \* feature series: 'time' and tp_daily_sum per cell
    data2,              \* baseline: [cell -> [month -> [mean_tp, std_tp]]]
    aligned,            \* data1 with mean_tp / std_tp assigned per timestamp
    anomalias_ds,       \* the "anomalias" variable
    \* --- calcular_amomalias (temperature script)
    count_data,         \* [cell -> count of days beyond the percentile]
    month_percentiles,  \* [cell -> [mean, std_dev]] of the month
    anomalies,          \* [cell -> float]
    anomalies_cleaned,  \* anomalies after the inf mask and fillna(0)
    averages,           \* spatial mean of anomalies_cleaned
    \* --- precipitation extractors (Rx5day, annual CDD)
    tp_daily,           \* daily precipitation of one cell: 'time' and values
    aux_year,           \* the year the yearly script was asked for
    Rx5day,             \* [(year, month) -> maximum 5-day sum]
    count_most_frequent_da, \* [year -> annual CDD value]
    \* --- yearly CDD blending and its persisted state
    year,               \* the year being processed
    grib,               \* [year -> whether era5_rain_{year}.grib exists]
    files,              \* [year -> content of datos_maximos_{year}.nc]
    CDD,                \* monthly CDD of the year processed last
    ds_resampled,       \* the daily values handed to calcular_interpolacion
    annual_cdd,         \* count_most_frequent_da of the year processed last
    written,            \* years whose state this run has written, in order
    reads,              \* the reads of a prior-year state made by this run
    \* --- composite index
    df_temp, df_rainfall, df_drought, df_wind, \* the four input tables
    ICA,                \* the merged table with its ICA column
    \* --- wind component and the regional means
    ds,                 \* [cell -> daily wind_speed of the month]
    percentiles,        \* [cell -> [threshold, mean_exceeding, std_exceeding]]
    count_above,        \* [cell -> fraction of days above the threshold]
    anomalies_above,    \* [cell -> float]
    ds_month,           \* what calculos_componente_viento returns
    anomalias_resultado, \* regional mean of "anomalias" per timestamp
    \* --- temperature occurrences
    t2m,                \* hourly temperature: a sequence of days of hours
    daily_max, daily_min, \* the daily resamples
    pctl,               \* the four percentile thresholds of the month
    occurrences,        \* the four counts of compute_occurrences
    \* --- monthly baseline statistics
    stat_data,          \* the samples handed to calcular_estadisticas
    mean_tp, std_tp,    \* its results, one entry per month found
    tp_filtered,        \* tp_daily cut to the reference window
    p_lluvia, d_sequia, \* the rain and drought baselines p and d
    \* --- resample_to_daily_precipitation
    grid_data,          \* the hourly series handed to the function
    daily_sum,          \* what each call returned, in call order
    \* --- region loop
    regiones,           \* [region -> whether processing it raises]
    region,             \* index of the region the loop is at
    attempted,          \* regions handed to procesar_anomalias_region
    log,                \* the messages printed, in order
    \* --- a year's series with and without one of its records
    removed,            \* the record taken out of tp_daily: position, value
    cdd_first,          \* the annual CDD of the series as it was
    cdd_second,         \* the annual CDD of the series without the record
    \* --- the steps of calcular_interpolacion up to the annual counts
    binary_data,        \* the daily series after the two where() calls
    data_cumsum,        \* its cumulative sum
    stamped,            \* the annual counts on their year-end timestamps
    cdd_monthly,        \* the monthly series the baseline script returns
    \* --- the steps of calcular_5_dias_maximo
    data_5_day_sum,     \* the rolling sum of every record
    mask,               \* the records the month mask keeps
    \* --- sea level (sealevel.py, sealevel2.py)
    decimal_year,       \* the decimal year handed to decimal_year_to_date
    target_date,        \* the timestamp it returns
    raw_data,           \* the rows of a station as downloaded
    df                  \* the rows of the station after the station loop

stdVars == <<data1, data2, aligned, anomalias_ds, count_data,
             month_percentiles, anomalies, anomalies_cleaned, averages>>

precipVars == <<tp_daily, aux_year, Rx5day, count_most_frequent_da>>

yearVars == <<year, grib, files, ds_resampled, CDD, annual_cdd, written, reads>>

icaVars == <<df_temp, df_rainfall, df_drought, df_wind, ICA>>

windVars == <<ds, percentiles, count_above, anomalies_above, ds_month,
              anomalias_resultado>>

occVars == <<t2m, daily_max, daily_min, pctl, occurrences>>

statVars == <<stat_data, mean_tp, std_tp, tp_filtered, p_lluvia, d_sequia>>

resampleVars == <<grid_data, daily_sum>>

regionVars == <<regiones, region, attempted, log>>

gapVars == <<removed, cdd_first, cdd_second>>

\* the variables of the intermediate steps and of the sea-level scripts
stepVars == <<binary_data, data_cumsum, stamped, cdd_monthly>>

rxVars == <<data_5_day_sum, mask>>

seaVars == <<decimal_year, target_date, raw_data, df>>

finalVars == <<gapVars, stepVars, rxVars, seaVars>>

\* the variables of the parts added after the composite index
laterVars == <<windVars, occVars, statVars, resampleVars, regionVars,
               finalVars>>

vars == <<pc, stdVars, precipVars, yearVars, icaVars, laterVars>>

\* value of a variable that the running specification does not use
Idle == <<>>

StdIdle ==
    /\ data1 = Idle /\ data2 = Idle /\ aligned = Idle /\ anomalias_ds = Idle
    /\ count_data = Idle /\ month_percentiles = Idle /\ anomalies = Idle
    /\ anomalies_cleaned = Idle /\ averages = Idle

PrecipIdle ==
    /\ tp_daily = Idle /\ aux_year = Idle /\ Rx5day = Idle
    /\ count_most_frequent_da = Idle

YearIdle ==
    /\ year = Idle /\ grib = Idle /\ files = Idle /\ CDD = Idle
    /\ ds_resampled = Idle /\ annual_cdd = Idle /\ written = Idle
    /\ reads = Idle

IcaIdle ==
    /\ df_temp = Idle /\ df_rainfall = Idle /\ df_drought = Idle
    /\ df_wind = Idle /\ ICA = Idle

WindIdle ==
    /\ ds = Idle /\ percentiles = Idle /\ count_above = Idle
    /\ anomalies_above = Idle /\ ds_month = Idle
    /\ anomalias_resultado = Idle

OccIdle ==
    /\ t2m = Idle /\ daily_max = Idle /\ daily_min = Idle /\ pctl = Idle
    /\ occurrences = Idle

StatIdle ==
    /\ stat_data = Idle /\ mean_tp = Idle /\ std_tp = Idle
    /\ tp_filtered = Idle /\ p_lluvia = Idle /\ d_sequia = Idle

ResampleIdle == grid_data = Idle /\ daily_sum = Idle

RegionIdle ==
    /\ regiones = Idle /\ region = Idle /\ attempted = Idle /\ log = Idle

GapIdle == removed = Idle /\ cdd_first = Idle /\ cdd_second = Idle

StepIdle ==
    /\ binary_data = Idle /\ data_cumsum = Idle /\ stamped = Idle
    /\ cdd_monthly = Idle

RxIdle == data_5_day_sum = Idle /\ mask = Idle

SeaIdle ==
    /\ decimal_year = Idle /\ target_date = Idle /\ raw_data = Idle
    /\ df = Idle

FinalIdle == GapIdle /\ StepIdle /\ RxIdle /\ SeaIdle

LaterIdle ==
    /\ WindIdle /\ OccIdle /\ StatIdle /\ ResampleIdle /\ RegionIdle
    /\ FinalIdle

-----------------------------------------------------------------------------
(***************************************************************************)
(* Floating-point values.  A float is a pair <<n, d>> with d >= 0: a       *)
(* finite value is the reduced fraction n/d (d > 0); <<1, 0>> is +inf,     *)
(* <<-1, 0>> is -inf and <<0, 0>> is NaN.  Rounding is not modelled.       *)
(***************************************************************************)
Abs(x) == IF x < 0 THEN -x ELSE x

Sign(x) == IF x > 0 THEN 1 ELSE IF x < 0 THEN -1 ELSE 0

RECURSIVE Gcd(_, _)
Gcd(a, b) == IF b = 0 THEN a ELSE Gcd(b, a % b)

\* the float n/d for integers n and d >= 0 (d = 0 gives inf, -inf or NaN)
Frac(n, d) ==
    IF d = 0 THEN <<Sign(n), 0>>
    ELSE LET g == Gcd(Abs(n), d) IN <<n \div g, d \div g>>

FInt(n) == <<n, 1>>

NaN == <<0, 0>>
PosInf == <<1, 0>>
NegInf == <<-1, 0>>

IsNaN(x) == x = NaN
IsInf(x) == x[2] = 0 /\ x[1] # 0
IsFinite(x) == x[2] > 0

\* a + b (inf + inf = inf, inf + -inf = NaN, NaN + x = NaN)
FAdd(a, b) ==
    IF IsNaN(a) \/ IsNaN(b) THEN NaN
    ELSE IF IsInf(a) /\ IsInf(b) THEN (IF a = b THEN a ELSE NaN)
    ELSE IF IsInf(a) THEN a
    ELSE IF IsInf(b) THEN b
    ELSE Frac(a[1] * b[2] + b[1] * a[2], a[2] * b[2])

FNeg(a) == <<-a[1], a[2]>>

FSub(a, b) == FAdd(a, FNeg(b))

\* a * b (0 * inf = NaN)
FMul(a, b) ==
    IF IsNaN(a) \/ IsNaN(b) THEN NaN
    ELSE Frac(a[1] * b[1], a[2] * b[2])

\* the result of an operation that raises instead of returning
Raised == <<"raised">>

\* a "/" that raises on a zero divisor, as Python's scalar division does
DivRaising(a, b) ==
    IF IsFinite(b) /\ b[1] = 0 THEN Raised
    ELSE IF IsNaN(a) \/ IsNaN(b) THEN NaN
    ELSE IF IsInf(a) /\ IsInf(b) THEN NaN
    ELSE IF IsInf(b) THEN FInt(0)
    ELSE Frac((IF b[1] < 0 THEN -1 ELSE 1) * a[1] * b[2], a[2] * Abs(b[1]))

\* a / b as numpy's true division of arrays computes it: x / 0 is +inf or
\* -inf by the sign of x, 0 / 0 is NaN, and nothing is raised
Div(a, b) ==
    IF IsNaN(a) \/ IsNaN(b) THEN NaN
    ELSE IF IsInf(a) /\ IsInf(b) THEN NaN
    ELSE IF IsInf(b) THEN FInt(0)
    ELSE Frac((IF b[1] < 0 THEN -1 ELSE 1) * a[1] * b[2], a[2] * Abs(b[1]))

-----------------------------------------------------------------------------
(***************************************************************************)
(* Month alignment and standardization (alinear_data, anomalias) and the   *)
(* temperature aggregation (calculate_anomalies, calcular_amomalias).      *)
(***************************************************************************)

\* grid cells of the rain / drought feature series
Cells == {1, 2}

\* largest feature value of a drawn series
MaxVal == 3

\* baseline means and standard deviations a drawn baseline may hold
Means == {0, 1}
Stds == {0, 2}

\* the first timestamp of a drawn feature series
StartTimes == {[year |-> 1961, month |-> 12], [year |-> 1962, month |-> 1]}

\* the month after timestamp t
NextMonth(t) ==
    IF t.month = 12 THEN [year |-> t.year + 1, month |-> 1]
    ELSE [year |-> t.year, month |-> t.month + 1]

\* baseline entry of a month the drawn series does not visit
DefaultStat == [mean_tp |-> 0, std_tp |-> 1]

\* the 'time' coordinate of a series that starts at t0: two monthly stamps
SeriesTime(t0) == <<t0, NextMonth(t0)>>

\* the rows of the baseline a series with 'time' coordinate tm selects
MonthsOf(tm) == {tm[i].month : i \in DOMAIN tm}

\* mean_tp (or std_tp) of positional entry i, a mis-selection by position
SelByPosition(stat, tm, i) == stat[i]

\* data2[...].sel(month=meses): the baseline entry of the month of time[i]
SelMonth(stat, tm, i) == stat[tm[i].month]

\* alinear_data: mean_tp and std_tp of month(time[i]) beside each value
alinear_data(d1, d2) ==
    [time |-> d1.time,
     tp_daily_sum |-> d1.tp_daily_sum,
     mean_tp |-> [c \in Cells |-> [i \in DOMAIN d1.time |->
                     SelMonth(d2[c], d1.time, i).mean_tp]],
     std_tp |-> [c \in Cells |-> [i \in DOMAIN d1.time |->
                     SelMonth(d2[c], d1.time, i).std_tp]]]

\* (tp_daily_sum - mean_tp) / std_tp, element by element
anomalias(d) ==
    [c \in Cells |-> [i \in DOMAIN d.time |->
        Div(FSub(FInt(d.tp_daily_sum[c][i]), FInt(d.mean_tp[c][i])),
            FInt(d.std_tp[c][i]))]]

\* an element whose division raised aborts the whole expression
AnyRaised(a) == \E c \in DOMAIN a : \E i \in DOMAIN a[c] : a[c][i] = Raised

InitRain ==
    /\ pc = "rain"
    /\ \E t0 \in StartTimes :
        /\ \E v \in [Cells -> [1..2 -> 0..MaxVal]] :
              data1 = [time |-> SeriesTime(t0), tp_daily_sum |-> v]
        /\ \E st \in [Cells -> [MonthsOf(SeriesTime(t0)) ->
                                [mean_tp : Means, std_tp : Stds]]] :
              data2 = [c \in Cells |-> [m \in 1..12 |->
                          IF m \in MonthsOf(SeriesTime(t0)) THEN st[c][m]
                          ELSE DefaultStat]]
    /\ aligned = Idle /\ anomalias_ds = Idle
    /\ count_data = Idle /\ month_percentiles = Idle /\ anomalies = Idle
    /\ anomalies_cleaned = Idle /\ averages = Idle

\* calcular_anomalias_sequia / calcular_anomalias_lluvia after the extractor:
\* alinear_data, then anomalias
AlinearAnomalias ==
    /\ pc = "rain"
    /\ LET al == alinear_data(data1, data2)
           an == anomalias(al)
       IN  IF AnyRaised(an)
           THEN pc' = "raised" /\ UNCHANGED <<aligned, anomalias_ds>>
           ELSE pc' = "rain_done" /\ aligned' = al /\ anomalias_ds' = an
    /\ UNCHANGED <<data1, data2, count_data, month_percentiles, anomalies,
                   anomalies_cleaned, averages>>
    /\ UNCHANGED <<precipVars, yearVars, icaVars, laterVars>>

\* --- temperature

\* number of grid cells of the temperature field
NCellsT == 3

CellsT == 1..NCellsT

\* largest day count of a month
MaxCount == 2

\* baseline mean and std_dev of the counts
MeansT == {0, 1}
StdsT == {0, 1, 2}

\* calculate_anomalies: (count_data - mean) / std_dev
calculate_anomalies(cnt, pct) ==
    [c \in DOMAIN cnt |->
        Div(FSub(FInt(cnt[c]), FInt(pct[c].mean)), FInt(pct[c].std_dev))]

\* the cleaning step left out: the anomalies as they are
NoClean(a) == a

\* where(~isinf) masks infinite cells to NaN, fillna(0) replaces NaN by 0
Clean(a) ==
    LET masked == [c \in DOMAIN a |-> IF IsInf(a[c]) THEN NaN ELSE a[c]]
    IN  [c \in DOMAIN a |-> IF IsNaN(masked[c]) THEN FInt(0) ELSE masked[c]]

RECURSIVE FSum(_, _)
FSum(f, S) ==
    IF S = {} THEN FInt(0)
    ELSE LET c == CHOOSE x \in S : TRUE IN FAdd(f[c], FSum(f, S \ {c}))

\* mean(dim=[latitude, longitude]) with xarray's default skipna: NaN cells
\* are left out of the sum and of the count
SpatialMean(a) ==
    LET valid == {c \in DOMAIN a : ~IsNaN(a[c])}
    IN  Div(FSum(a, valid), FInt(Cardinality(valid)))

InitTemp ==
    /\ pc = "temp"
    /\ count_data \in [CellsT -> 0..MaxCount]
    /\ month_percentiles \in [CellsT -> [mean : MeansT, std_dev : StdsT]]
    /\ anomalies = Idle /\ anomalies_cleaned = Idle /\ averages = Idle
    /\ data1 = Idle /\ data2 = Idle /\ aligned = Idle /\ anomalias_ds = Idle

\* calcular_amomalias from the counts on: anomalies, cleaning, spatial mean
CalcularAmomalias ==
    /\ pc = "temp"
    /\ LET an == calculate_anomalies(count_data, month_percentiles)
       IN  IF \E c \in DOMAIN an : an[c] = Raised
           THEN /\ pc' = "raised"
                /\ UNCHANGED <<anomalies, anomalies_cleaned, averages>>
           ELSE /\ pc' = "temp_done"
                /\ anomalies' = an
                /\ anomalies_cleaned' = Clean(an)
                /\ averages' = SpatialMean(Clean(an))
    /\ UNCHANGED <<data1, data2, aligned, anomalias_ds, count_data,
                   month_percentiles>>
    /\ UNCHANGED <<precipVars, yearVars, icaVars, laterVars>>

InitStd ==
    (InitRain \/ InitTemp) /\ PrecipIdle /\ YearIdle /\ IcaIdle /\ LaterIdle

NextStd == AlinearAnomalias \/ CalcularAmomalias

SpecStd == InitStd /\ [][NextStd]_vars

-----------------------------------------------------------------------------
(***************************************************************************)
(* Properties of the standardization (checked under SpecStd).              *)
(***************************************************************************)

\* value, baseline mean and baseline std that belong to entry i of cell c
RainValue(c, i) == data1.tp_daily_sum[c][i]
RainStat(c, i) == data2[c][data1.time[i].month]

\* a is the exact finite quotient (v - mean) / std, for std # 0
IsQuotient(a, v, mean, std) ==
    IsFinite(a) /\ a[1] * std = a[2] * (v - mean)

\* C1: for every timestamp t and cell, alinear_data pairs the value with the
\* baseline mean and std of calendar month month(t), and the anomaly is
\* exactly (value - mean) / std (std # 0; std = 0 is C9's case): a value
\* equal to the mean has anomaly 0, a value equal to mean + std anomaly 1.
\* The same quotient is what calculate_anomalies returns for the counts.
C1_AlignedQuotient ==
    /\ pc = "rain_done" =>
        \A c \in Cells : \A i \in DOMAIN data1.time :
            LET v == RainValue(c, i)
                st == RainStat(c, i)
                a == anomalias_ds[c][i]
            IN  /\ aligned.mean_tp[c][i] = st.mean_tp
                /\ aligned.std_tp[c][i] = st.std_tp
                /\ st.std_tp # 0 =>
                    /\ IsQuotient(a, v, st.mean_tp, st.std_tp)
                    /\ v = st.mean_tp => a = FInt(0)
                    /\ v = st.mean_tp + st.std_tp => a = FInt(1)
    /\ pc = "temp_done" =>
        \A c \in CellsT :
            LET v == count_data[c]
                st == month_percentiles[c]
                a == anomalies[c]
            IN  st.std_dev # 0 =>
                    /\ IsQuotient(a, v, st.mean, st.std_dev)
                    /\ v = st.mean => a = FInt(0)
                    /\ v = st.mean + st.std_dev => a = FInt(1)

\* C1 witness: a series whose first stamp is December (position 1, month 12)
\* holds a value equal to mean + std (anomaly 1) and one equal to the mean
\* (anomaly 0), against months with different baselines
C1_Witness ==
    /\ pc = "rain_done"
    /\ data1.time[1].month = 12
    /\ \E c \in Cells :
        /\ data2[c][12] # data2[c][1]
        /\ RainStat(c, 1).std_tp # 0
        /\ RainValue(c, 1) = RainStat(c, 1).mean_tp + RainStat(c, 1).std_tp
        /\ anomalias_ds[c][1] = FInt(1)
        /\ RainStat(c, 2).std_tp # 0
        /\ RainValue(c, 2) = RainStat(c, 2).mean_tp
        /\ anomalias_ds[c][2] = FInt(0)

\* C9: with a baseline std of 0 the standardization raises nothing; the
\* cell's anomaly is infinite when value # mean and NaN when value = mean,
\* and every cell with std > 0 still holds its quotient (value - mean) / std.
C9_ZeroStdNonFinite ==
    /\ pc # "raised"
    /\ pc = "rain_done" =>
        \A c \in Cells : \A i \in DOMAIN data1.time :
            LET v == RainValue(c, i)
                st == RainStat(c, i)
                a == anomalias_ds[c][i]
            IN  /\ (st.std_tp = 0 /\ v # st.mean_tp) => IsInf(a)
                /\ (st.std_tp = 0 /\ v = st.mean_tp) => IsNaN(a)
                /\ st.std_tp > 0 => IsQuotient(a, v, st.mean_tp, st.std_tp)
    /\ pc = "temp_done" =>
        \A c \in CellsT :
            LET v == count_data[c]
                st == month_percentiles[c]
                a == anomalies[c]
            IN  /\ (st.std_dev = 0 /\ v # st.mean) => IsInf(a)
                /\ (st.std_dev = 0 /\ v = st.mean) => IsNaN(a)
                /\ st.std_dev > 0 => IsQuotient(a, v, st.mean, st.std_dev)

\* C9 witness: one cell with std = 0 and value # mean (infinite), one with
\* std = 0 and value = mean (NaN) and a finite non-zero anomaly beside them
C9_Witness ==
    /\ pc = "temp_done"
    /\ \E c1, c2, c3 \in CellsT :
        /\ month_percentiles[c1].std_dev = 0 /\ IsInf(anomalies[c1])
        /\ month_percentiles[c2].std_dev = 0 /\ IsNaN(anomalies[c2])
        /\ month_percentiles[c3].std_dev > 0
        /\ IsFinite(anomalies[c3]) /\ anomalies[c3] # FInt(0)

\* product of the non-zero baseline stds of the cells in S
RECURSIVE StdProduct(_)
StdProduct(S) ==
    IF S = {} THEN 1
    ELSE LET c == CHOOSE x \in S : TRUE
             sd == month_percentiles[c].std_dev
         IN  (IF sd = 0 THEN 1 ELSE sd) * StdProduct(S \ {c})

\* P times the sum over S of the finite anomalies (a cell with std = 0
\* contributes 0), as an integer; P is a multiple of every non-zero std
RECURSIVE ScaledFiniteSum(_, _)
ScaledFiniteSum(S, P) ==
    IF S = {} THEN 0
    ELSE LET c == CHOOSE x \in S : TRUE
             st == month_percentiles[c]
         IN  (IF st.std_dev = 0 THEN 0
              ELSE ((count_data[c] - st.mean) * P) \div st.std_dev)
             + ScaledFiniteSum(S \ {c}, P)

\* C10: in calcular_amomalias every infinite or NaN anomaly cell is replaced
\* by 0 before the spatial mean, so the mean is finite and equals the mean of
\* the cells with the non-finite ones counted as 0 (mean over [a, +inf, b] =
\* mean over [a, 0, b] = (a + b) / 3).
C10_CleanedMean ==
    pc = "temp_done" =>
        /\ \A c \in CellsT :
              anomalies_cleaned[c] =
                  IF IsFinite(anomalies[c]) THEN anomalies[c] ELSE FInt(0)
        /\ IsFinite(averages)
        /\ LET P == StdProduct(CellsT)
           IN  averages[1] * NCellsT * P
                   = averages[2] * ScaledFiniteSum(CellsT, P)

\* C10 witness: cells [finite non-zero, +inf, finite] and a non-zero mean
C10_Witness ==
    /\ pc = "temp_done"
    /\ \E c1, c2 \in CellsT :
        /\ anomalies[c1] = PosInf
        /\ IsFinite(anomalies[c2]) /\ anomalies[c2] # FInt(0)
        /\ \A c \in CellsT \ {c1} : IsFinite(anomalies[c])
    /\ averages # FInt(0)

-----------------------------------------------------------------------------
(***************************************************************************)
(* Precipitation extractors: calcular_5_dias_maximo (Rx5day) and the       *)
(* annual consecutive-dry-days count of calcular_interpolacion, in the     *)
(* baseline script (anomalies_precipitation.py) and in the yearly script   *)
(* (calcular_anomalias_lluvia.py).  One grid cell; the calendar is scaled  *)
(* down to MonthsPerYear months of DaysPerMonth days.                      *)
(***************************************************************************)

\* days of a calendar month (more than the 4 days a window reaches back)
DaysPerMonth == 5

\* months of a calendar year
MonthsPerYear == 2

\* days of a full calendar year: the 365 of the baseline script's filter
DaysPerYear == MonthsPerYear * DaysPerMonth

\* longest daily series drawn
NDays == 15

\* the year of the first day of a drawn series
FirstYear == 1961

\* daily precipitation in units of 0.001: 0 is a dry day, 1 a day of
\* exactly 0.001
Precip == {0, 1}

\* the dryness threshold 0.001, in the same units
DryThreshold == 1

\* rolling(time=5): records of a window
Window == 5

\* shift(time=4): records between the last and the first day of a window
Shift == 4

\* the calendar date of the n-th day (n >= 1) counted from 1 January FirstYear
DateOf(n) ==
    [year |-> FirstYear + (n - 1) \div DaysPerYear,
     month |-> (((n - 1) % DaysPerYear) \div DaysPerMonth) + 1,
     day |-> ((n - 1) % DaysPerMonth) + 1]

\* a gap-free daily series of len days from 1 January FirstYear
DailyTime(len) == [i \in 1..len |-> DateOf(i)]

Max(S) == CHOOSE x \in S : \A y \in S : y <= x
Min(S) == CHOOSE x \in S : \A y \in S : x <= y

RECURSIVE SumRange(_, _, _)
SumRange(v, lo, hi) == IF lo > hi THEN 0 ELSE v[hi] + SumRange(v, lo, hi - 1)

\* rolling(time=5, center=True, min_periods=1).sum(): the records i-2..i+2
RollingSumCentered(v) ==
    [i \in DOMAIN v |->
        SumRange(v, Max({1, i - 2}), Min({Len(v), i + 2}))]

\* a trailing sum over the 4 records i-3..i
RollingSum4(v) ==
    [i \in DOMAIN v |-> SumRange(v, Max({1, i - (Shift - 1)}), i)]

\* data.rolling(time=5, min_periods=1).sum(): the sum of the records
\* i-4..i by position, of the records there are when fewer than 5
RollingSum(v) ==
    [i \in DOMAIN v |-> SumRange(v, Max({1, i - (Window - 1)}), i)]

\* a mask that also keeps the first 4 records of the series
MaskOrSeriesStart(mo, i) == i <= Shift \/ mo[i] - mo[i - Shift] = 0

\* a mask that keeps every record
MaskAll(mo, i) == TRUE

\* mask = (month - month.shift(time=4) == 0): the record 4 positions before
\* exists and carries the same month number
MonthMask(mo, i) == i > Shift /\ mo[i] - mo[i - Shift] = 0

\* the (year, month) bin of a date, and the bins in calendar order
Bin(t) == [year |-> t.year, month |-> t.month]
BinIndex(b) == b.year * MonthsPerYear + (b.month - 1)
BinOfIndex(k) ==
    [year |-> k \div MonthsPerYear, month |-> (k % MonthsPerYear) + 1]

\* resample(time='1M').max() of the records in kept: one bin per calendar
\* month from the first to the last record kept, NaN for an empty bin
ResampleMax(tm, v, kept) ==
    IF kept = {} THEN Idle
    ELSE LET ks == {BinIndex(Bin(tm[i])) : i \in kept}
             bins == {BinOfIndex(k) : k \in Min(ks)..Max(ks)}
         IN  [b \in bins |->
                 LET here == {v[i] : i \in {j \in kept : Bin(tm[j]) = b}}
                 IN  IF here = {} THEN NaN ELSE FInt(Max(here))]

\* calcular_5_dias_maximo
calcular_5_dias_maximo(data) ==
    LET summed == RollingSum(data.tp)
        month == [i \in DOMAIN data.time |-> data.time[i].month]
        kept == {i \in DOMAIN data.time : MonthMask(month, i)}
    IN  ResampleMax(data.time, summed, kept)

\* the literal 1 of other=1, in the units of the precipitation values
One == 1000

\* a binarization with 1 for a dry day and 0 for a wet day
BinarizeDry(v) == [i \in DOMAIN v |-> IF v[i] < DryThreshold THEN One ELSE 0]

\* data.where(data < 0.001, other=1) then data.where(data >= 0.001, other=0)
Binarize(v) ==
    LET first == [i \in DOMAIN v |-> IF v[i] < DryThreshold THEN v[i] ELSE One]
    IN  [i \in DOMAIN v |-> IF first[i] >= DryThreshold THEN first[i] ELSE 0]

\* a cumulative sum that runs on from the first record of the series
CumSumGlobal(v, idx) == [i \in idx |-> SumRange(v, 1, i)]

\* cumsum(dim='time') of the records in idx (an interval of positions)
CumSum(v, idx) == [i \in idx |-> SumRange(v, Min(idx), i)]

\* counts.max() of np.unique(data, return_counts=True)
MaxFrequency(cs) ==
    Max({Cardinality({i \in DOMAIN cs : cs[i] = x}) : x \in {cs[j] : j \in DOMAIN cs}})

\* count_most_frequent_with_condition with the two cases exchanged
count_most_frequent_swapped(cs) ==
    IF \E i \in DOMAIN cs : cs[i] = 0 THEN MaxFrequency(cs) - 1
    ELSE MaxFrequency(cs)

\* count_most_frequent_with_condition of the baseline script
count_most_frequent_base(cs) ==
    IF \E i \in DOMAIN cs : cs[i] = 0 THEN MaxFrequency(cs)
    ELSE MaxFrequency(cs) - 1

\* count_most_frequent_with_condition of the yearly script
count_most_frequent_yearly(cs) == MaxFrequency(cs) - 1

\* positions of the records of calendar year y
YearIdx(tm, y) == {i \in DOMAIN tm : tm[i].year = y}

\* calcular_interpolacion of the baseline script up to the annual counts:
\* years with fewer records than a full year are left out, the rest are
\* binarized, summed per year and counted
annual_cdd_base(data) ==
    LET anios_unicos == {data.time[i].year : i \in DOMAIN data.time}
        anios_validos == {y \in anios_unicos :
                             Cardinality(YearIdx(data.time, y)) >= DaysPerYear}
        bin == Binarize(data.tp)
    IN  [y \in anios_validos |->
            FInt(count_most_frequent_base(CumSum(bin, YearIdx(data.time, y))))]

\* ds_resampled.sel(time=slice(f"{year}-01-01", f"{year}-12-31"))
SliceYear(data, y) ==
    LET idx == YearIdx(data.time, y)
        off == Min(idx) - 1
    IN  [time |-> [i \in 1..Cardinality(idx) |-> data.time[i + off]],
         tp |-> [i \in 1..Cardinality(idx) |-> data.tp[i + off]]]

\* calcular_interpolacion of the yearly script up to the annual count
annual_cdd_yearly(data) ==
    FInt(count_most_frequent_yearly(CumSum(Binarize(data.tp), DOMAIN data.tp)))

InitPrecip ==
    /\ pc = "precip"
    /\ \E len \in 1..NDays : \E v \in [1..len -> Precip] :
          tp_daily = [time |-> DailyTime(len), tp |-> v]
    /\ aux_year = Idle /\ Rx5day = Idle /\ count_most_frequent_da = Idle
    /\ StdIdle
    /\ YearIdle
    /\ IcaIdle
    /\ LaterIdle

\* anomalies_precipitation.py: Rx5day and the annual CDD of the whole series
BaselineScript ==
    /\ pc = "precip"
    /\ pc' = "base_done"
    /\ Rx5day' = calcular_5_dias_maximo(tp_daily)
    /\ count_most_frequent_da' = annual_cdd_base(tp_daily)
    /\ UNCHANGED <<tp_daily, aux_year>>
    /\ UNCHANGED <<stdVars, yearVars, icaVars, laterVars>>

\* calcular_anomalias_lluvia.py, procesar_anomalias for one year: the
\* year's slice, its Rx5day and its annual CDD
YearlyScript ==
    /\ pc = "precip"
    /\ \E y \in {tp_daily.time[i].year : i \in DOMAIN tp_daily.time} :
        LET sliced == SliceYear(tp_daily, y)
        IN  /\ aux_year' = y
            /\ Rx5day' = calcular_5_dias_maximo(sliced)
            /\ count_most_frequent_da' =
                   [yy \in {y} |-> annual_cdd_yearly(sliced)]
    /\ pc' = "year_done"
    /\ UNCHANGED tp_daily
    /\ UNCHANGED <<stdVars, yearVars, icaVars, laterVars>>

NextPrecip == BaselineScript \/ YearlyScript

SpecPrecip == InitPrecip /\ [][NextPrecip]_vars

-----------------------------------------------------------------------------
(***************************************************************************)
(* Properties of the precipitation extractors (checked under SpecPrecip).  *)
(***************************************************************************)

\* the series an extractor was given: the whole series in the baseline
\* script, the slice of aux_year in the yearly script
ExtractorInput ==
    IF pc = "year_done" THEN SliceYear(tp_daily, aux_year) ELSE tp_daily

\* length of the longest run of consecutive dry days (precipitation below
\* the threshold) in the daily values v
LongestDryRun(v) ==
    Max({0} \cup {k \in 1..Len(v) :
            \E i \in 1..(Len(v) - k + 1) :
                \A j \in i..(i + k - 1) : v[j] < DryThreshold})

\* C2: for every gap-free one-year daily series the annual CDD value of the
\* extractor (binarization, per-year cumulative sum,
\* count_most_frequent_with_condition) is the length of the longest run of
\* consecutive dry days, in the baseline script and in the yearly script.
C2_CDDIsLongestDryRun ==
    /\ pc = "base_done" =>
        \A y \in DOMAIN count_most_frequent_da :
            count_most_frequent_da[y] =
                FInt(LongestDryRun(SliceYear(tp_daily, y).tp))
    /\ (pc = "year_done" /\ Len(ExtractorInput.tp) = DaysPerYear) =>
        count_most_frequent_da[aux_year] =
            FInt(LongestDryRun(ExtractorInput.tp))

\* the (year, month) bins of the days of a series
BinsOf(data) == {Bin(data.time[i]) : i \in DOMAIN data.time}

\* the days of bin b whose window start, the day 4 days before, lies in b
WithinMonthDays(data, b) ==
    {i \in DOMAIN data.time : Bin(data.time[i]) = b /\ data.time[i].day - Shift >= 1}

-----------------------------------------------------------------------------
(***************************************************************************)
(* The yearly CDD step of calcular_anomalias_lluvia.py:                    *)
(* calcular_interpolacion blends the year's annual count with the state    *)
(* the previous year left in datos_maximos_{year-1}.nc and writes          *)
(* datos_maximos_{year}.nc; ejecutar_codigo calls it year after year.      *)
(* One grid cell.                                                          *)
(***************************************************************************)

\* a file that does not exist
Absent == <<"absent">>

\* values a state file left by an earlier run may hold
StaleValues == {FInt(3), FInt(10)}

\* the year whose state the blend of year y reads, off by one
PriorYearSame(y) == y

\* aux_year -= 1: the year whose state the blend of year y reads
PriorYear(y) == y - 1

\* the two weights exchanged
BlendSwapped(m, carry, cur) ==
    IF m # 12
    THEN FAdd(FMul(Frac(m, 12), carry), FMul(Frac(12 - m, 12), cur))
    ELSE cur

\* xr.where(month != 12, ((12 - month)/12)*tp_daily_sum + (month/12)*tp, tp)
BlendMonth(m, carry, cur) ==
    IF m # 12
    THEN FAdd(FMul(Frac(12 - m, 12), carry), FMul(Frac(m, 12), cur))
    ELSE cur

\* count_most_frequent_da * (month / 12)
ScaleMonth(m, cur) == FMul(cur, Frac(m, 12))

\* the value of month 1
SelCarryFirst(cdd) == cdd[1]

\* CDD.sel(month=12): the value written to datos_maximos_{aux_year}.nc
SelCarry(cdd) == cdd[12]

\* calcular_interpolacion(data, aux_year, ruta_salida) with the state files
\* fs: the monthly CDD and the files after the write, or the exception of
\* open_dataarray when datos_maximos_{aux_year-1}.nc does not exist
calcular_interpolacion(tp, y, fs) ==
    LET cur == annual_cdd_yearly([tp |-> tp])
    IN  IF y = FirstYear
        THEN LET cdd == [m \in 1..12 |-> ScaleMonth(m, cur)]
             IN  [ok |-> TRUE, cur |-> cur, read |-> Absent, CDD |-> cdd,
                  files |-> [fs EXCEPT ![y] = SelCarry(cdd)]]
        ELSE IF fs[PriorYear(y)] = Absent
        THEN [ok |-> FALSE, cur |-> cur, read |-> Absent, CDD |-> Idle,
              files |-> fs]
        ELSE LET carry == fs[PriorYear(y)]
                 cdd == [m \in 1..12 |-> BlendMonth(m, carry, cur)]
             IN  [ok |-> TRUE, cur |-> cur, read |-> carry, CDD |-> cdd,
                  files |-> [fs EXCEPT ![y] = SelCarry(cdd)]]

\* days of the daily series of one year's GRIB file
NYearDays == 4

\* the daily values of one year
YearSeries == [1..NYearDays -> Precip]

\* years a single call may be asked for
NCallYears == 3

CallYears == FirstYear..(FirstYear + NCallYears - 1)

\* the state files a call may touch
FileYears(ys) == (Min(ys) - 1)..Max(ys)

InitInterp ==
    /\ pc = "interp"
    /\ year \in CallYears
    /\ \E prior \in {Absent} \cup StaleValues :
          files = [y \in FileYears(CallYears) |->
                      IF y = year - 1 THEN prior ELSE Absent]
    /\ grib = [y \in {year} |-> TRUE]
    /\ ds_resampled \in YearSeries
    /\ CDD = Idle /\ annual_cdd = Idle /\ written = <<>> /\ reads = <<>>
    /\ StdIdle
    /\ PrecipIdle
    /\ IcaIdle
    /\ LaterIdle

\* one call of calcular_interpolacion for the year's daily series
CalcularInterpolacion ==
    /\ pc = "interp"
    /\ \E r \in {calcular_interpolacion(ds_resampled, year, files)} :
            /\ annual_cdd' = r.cur
            /\ IF r.ok
               THEN /\ pc' = "interp_done"
                    /\ CDD' = r.CDD
                    /\ files' = r.files
                    /\ written' = Append(written, [year |-> year, value |-> r.files[year]])
                    /\ reads' = IF r.read = Absent THEN reads
                                ELSE Append(reads, [year |-> year, value |-> r.read,
                                                    nwritten |-> Len(written)])
               ELSE /\ pc' = "FileNotFoundError"
                    /\ UNCHANGED <<CDD, files, written, reads>>
    /\ UNCHANGED <<year, grib, ds_resampled>>
    /\ UNCHANGED <<stdVars, precipVars, icaVars, laterVars>>

SpecInterp == InitInterp /\ [][CalcularInterpolacion]_vars

\* --- ejecutar_codigo

\* years of a batch run: range(FirstYear, FirstYear + NYears)
NYears == 3

BatchYears == FirstYear..(FirstYear + NYears - 1)

\* the daily series of the years of the batch: all dry, all wet, and dry
\* after one wet day
BatchSeries ==
    {[i \in 1..NYearDays |-> 0], [i \in 1..NYearDays |-> 1],
     [i \in 1..NYearDays |-> IF i = 1 THEN 1 ELSE 0]}

InitBatch ==
    /\ pc = "loop"
    /\ year = FirstYear
    /\ grib \in [BatchYears -> BOOLEAN]
    /\ files \in [FileYears(BatchYears) -> {Absent} \cup StaleValues]
    /\ ds_resampled = Idle
    /\ CDD = Idle /\ annual_cdd = Idle /\ written = <<>> /\ reads = <<>>
    /\ StdIdle
    /\ PrecipIdle
    /\ IcaIdle
    /\ LaterIdle

\* one iteration of the loop: procesar_anomalias loads era5_rain_{year}.grib
\* and calls calcular_interpolacion; the twelve rows are appended
ProcessYear ==
    /\ pc = "loop" /\ year \in BatchYears /\ grib[year]
    /\ \E tp \in BatchSeries :
        \E r \in {calcular_interpolacion(tp, year, files)} :
            /\ ds_resampled' = tp
            /\ annual_cdd' = r.cur
            /\ IF r.ok
               THEN /\ pc' = "loop"
                    /\ year' = year + 1
                    /\ CDD' = r.CDD
                    /\ files' = r.files
                    /\ written' = Append(written, [year |-> year, value |-> r.files[year]])
                    /\ reads' = IF r.read = Absent THEN reads
                                ELSE Append(reads, [year |-> year, value |-> r.read,
                                                    nwritten |-> Len(written)])
               ELSE /\ pc' = "FileNotFoundError"
                    /\ UNCHANGED <<year, CDD, files, written, reads>>
    /\ UNCHANGED grib
    /\ UNCHANGED <<stdVars, precipVars, icaVars, laterVars>>

\* load_grid_data raises for a missing GRIB file; nothing in ejecutar_codigo
\* catches it
MissingGrib ==
    /\ pc = "loop" /\ year \in BatchYears /\ ~grib[year]
    /\ pc' = "aborted"
    /\ UNCHANGED yearVars
    /\ UNCHANGED <<stdVars, precipVars, icaVars, laterVars>>

\* the loop is over: the two tables are written
FinishBatch ==
    /\ pc = "loop" /\ year \notin BatchYears
    /\ pc' = "batch_done"
    /\ UNCHANGED yearVars
    /\ UNCHANGED <<stdVars, precipVars, icaVars, laterVars>>

NextBatch == ProcessYear \/ MissingGrib \/ FinishBatch

SpecBatch == InitBatch /\ [][NextBatch]_vars

-----------------------------------------------------------------------------
(***************************************************************************)
(* Properties of the yearly CDD step (SpecInterp) and of the batch that    *)
(* calls it year after year (SpecBatch).                                   *)
(***************************************************************************)

\* 12 * x = n as exact values, for a float x and an integer n
TwelveTimes(x, n) == IsFinite(x) /\ x[1] * 12 = x[2] * n

\* C4: with a prior-year state, the monthly value of every month m in 1..11
\* is ((12-m)/12) * prior_year_carry + (m/12) * current_year_value, and the
\* value of month 12 is current_year_value exactly.
C4_Blend ==
    (pc = "interp_done" /\ year # FirstYear) =>
        LET carry == files[year - 1]
            cur == annual_cdd
        IN  /\ carry[2] = 1 /\ cur[2] = 1
            /\ \A m \in 1..11 :
                  TwelveTimes(CDD[m], (12 - m) * carry[1] + m * cur[1])
            /\ CDD[12] = cur

\* C4 witness: carry 10 and an annual count of 2 give 5 + 1 = 6 at month 6
\* and 2 at month 12
C4_Witness ==
    /\ pc = "interp_done" /\ year # FirstYear
    /\ files[year - 1] = FInt(10) /\ annual_cdd = FInt(2)
    /\ CDD[6] = FInt(6) /\ CDD[12] = FInt(2)
    /\ CDD[3] = Frac(16, 2)

\* C5: ejecutar_codigo processes the years in strictly increasing order, and
\* the prior-year carry read for a year N after the first is the state that
\* the processing of year N-1 wrote earlier in the same run: no state is
\* read before this run has written it.
C5_CarryWrittenBeforeRead ==
    /\ \A i \in 1..Len(written) : written[i].year = FirstYear + (i - 1)
    /\ \A k \in 1..Len(reads) :
        \E i \in 1..reads[k].nwritten :
            /\ written[i].year = reads[k].year - 1
            /\ written[i].value = reads[k].value

\* C5 witness: a finished run in which every year after the first read a
\* carry, and two of the carries differ
C5_Witness ==
    /\ pc = "batch_done"
    /\ Len(written) = NYears /\ Len(reads) = NYears - 1
    /\ reads[1].value # reads[2].value

\* C6: whenever no prior-year state exists, whatever the year, a call of
\* calcular_interpolacion does not fail and gives the monthly values
\* current_year_value * m / 12 for m = 1..12.
C6_BootstrapAnyStartYear ==
    (pc # "interp" /\ files[year - 1] = Absent) =>
        /\ pc = "interp_done"
        /\ \A m \in 1..12 : TwelveTimes(CDD[m], m * annual_cdd[1])

-----------------------------------------------------------------------------
(***************************************************************************)
(* The composite index: plot_ICA of graficas_finales.py merges the four    *)
(* tables on 'date' and computes the ICA column.  A table is the sequence  *)
(* of its rows.                                                            *)
(***************************************************************************)

\* months the four input tables may cover
NDates == 2

\* pd.to_datetime(year, month, day=1) of the k-th month from December 1961
IcaDate(k) ==
    [year |-> FirstYear + (10 + k) \div 12, month |-> ((10 + k) % 12) + 1]

\* the values a row of each input table may hold
TempValues == {[t_90 |-> FInt(1), t_10 |-> FInt(-1)],
               [t_90 |-> FInt(0), t_10 |-> FInt(1)]}
WindValues == {FInt(0), FInt(2)}
RainValues == {FInt(1)}
DroughtValues == {FInt(0), FInt(1)}

\* the table of the rows f[k] of the months k that have one, in month order,
\* as the yearly loops write them
RECURSIVE TableOf(_, _)
TableOf(f, n) ==
    IF n = 0 THEN <<>>
    ELSE IF n \in DOMAIN f THEN Append(TableOf(f, n - 1), f[n])
         ELSE TableOf(f, n - 1)

DateBefore(a, b) == a.year < b.year \/ (a.year = b.year /\ a.month < b.month)

\* df.sort_values(by='date'): insertion of row r into a sorted table
RECURSIVE InsertByDate(_, _)
InsertByDate(t, r) ==
    IF t = <<>> THEN <<r>>
    ELSE IF DateBefore(r.date, t[Len(t)].date)
         THEN Append(InsertByDate(SubSeq(t, 1, Len(t) - 1), r), t[Len(t)])
         ELSE Append(t, r)

RECURSIVE SortByDate(_)
SortByDate(t) ==
    IF t = <<>> THEN <<>>
    ELSE InsertByDate(SortByDate(SubSeq(t, 1, Len(t) - 1)), t[Len(t)])

\* an inner join: a left row without a match is dropped
InnerRows(matches, unmatched) == matches

\* how='left': a left row without a match is kept, its new columns NaN
LeftRows(matches, unmatched) ==
    IF matches = <<>> THEN <<unmatched>> ELSE matches

RECURSIVE Flatten(_)
Flatten(ss) ==
    IF ss = <<>> THEN <<>>
    ELSE Flatten(SubSeq(ss, 1, Len(ss) - 1)) \o ss[Len(ss)]

\* the columns cols of right row r, and the same columns all NaN
Columns(r, cols) == [c \in cols |-> r[c]]
NaNColumns(cols) == [c \in cols |-> NaN]

\* left.merge(right[['date'] + cols], on='date', how='left')
MergeLeft(left, right, cols) ==
    Flatten([i \in DOMAIN left |->
        LET same == SelectSeq(right, LAMBDA r : r.date = left[i].date)
            matches == [j \in DOMAIN same |-> left[i] @@ Columns(same[j], cols)]
        IN  LeftRows(matches, left[i] @@ NaNColumns(cols))])

\* the temperature terms added instead of subtracted
IcaValuePlus(r) ==
    Div(FAdd(FAdd(FAdd(FAdd(r.t_90, r.t_10), r.W_std), r.P_std), r.D_std),
        FInt(5))

\* (t_90 - t_10 + W_std + P_std + D_std) / 5
IcaValue(r) ==
    Div(FAdd(FAdd(FAdd(FSub(r.t_90, r.t_10), r.W_std), r.P_std), r.D_std),
        FInt(5))

\* plot_ICA up to the ICA column
plot_ICA(temp, rainfall, drought, wind) ==
    LET w == [i \in DOMAIN wind |->
                 [date |-> wind[i].date, W_std |-> wind[i].anomalies_above]]
        m1 == MergeLeft(w, SortByDate(temp), {"t_90", "t_10"})
        m2 == MergeLeft(m1, [i \in DOMAIN rainfall |->
                  [date |-> SortByDate(rainfall)[i].date,
                   P_std |-> SortByDate(rainfall)[i].Anomalia_Lluvia]], {"P_std"})
        m3 == MergeLeft(m2, [i \in DOMAIN drought |->
                  [date |-> SortByDate(drought)[i].date,
                   D_std |-> SortByDate(drought)[i].Anomalia_Sequia]], {"D_std"})
    IN  [i \in DOMAIN m3 |-> m3[i] @@ [ICA |-> IcaValue(m3[i])]]

InitICA ==
    /\ pc = "ica"
    /\ \E present \in SUBSET (1..NDates) : \E t \in [present -> TempValues] :
        df_temp = TableOf([k \in present |->
                      [date |-> IcaDate(k), t_90 |-> t[k].t_90,
                       t_10 |-> t[k].t_10]], NDates)
    /\ \E present \in SUBSET (1..NDates) : \E v \in [present -> RainValues] :
        df_rainfall = TableOf([k \in present |->
                      [date |-> IcaDate(k), Anomalia_Lluvia |-> v[k]]], NDates)
    /\ \E present \in SUBSET (1..NDates) : \E v \in [present -> DroughtValues] :
        df_drought = TableOf([k \in present |->
                      [date |-> IcaDate(k), Anomalia_Sequia |-> v[k]]], NDates)
    /\ \E present \in SUBSET (1..NDates) : \E v \in [present -> WindValues] :
        df_wind = TableOf([k \in present |->
                      [date |-> IcaDate(k), anomalies_above |-> v[k]]], NDates)
    /\ ICA = Idle
    /\ StdIdle
    /\ PrecipIdle
    /\ YearIdle
    /\ LaterIdle

PlotICA ==
    /\ pc = "ica"
    /\ pc' = "ica_done"
    /\ ICA' = plot_ICA(df_temp, df_rainfall, df_drought, SortByDate(df_wind))
    /\ UNCHANGED <<df_temp, df_rainfall, df_drought, df_wind>>
    /\ UNCHANGED <<stdVars, precipVars, yearVars, laterVars>>

SpecICA == InitICA /\ [][PlotICA]_vars

-----------------------------------------------------------------------------
(***************************************************************************)
(* Claims about the composite index                                        *)
(***************************************************************************)

DatesOf(t) == {t[i].date : i \in DOMAIN t}

\* the dates that all component inputs have a row for
InAllInputs(d) ==
    /\ d \in DatesOf(df_temp)
    /\ d \in DatesOf(df_rainfall)
    /\ d \in DatesOf(df_drought)
    /\ d \in DatesOf(df_wind)

\* the integer in column col of the row of table t dated d
InputAt(t, d, col) == (CHOOSE r \in {t[i] : i \in DOMAIN t} : r.date = d)[col][1]

\* the sum of the five components of date d, as integers
ComponentSum(d) ==
    InputAt(df_temp, d, "t_90") - InputAt(df_temp, d, "t_10")
        + InputAt(df_wind, d, "anomalies_above")
        + InputAt(df_rainfall, d, "Anomalia_Lluvia")
        + InputAt(df_drought, d, "Anomalia_Sequia")

\* C7: for every date present in all component inputs, the ICA of that date
\* is (t_90 - t_10 + W_std + P_std + D_std) / 5 of the components of that
\* same date: the date has a row, and five times the ICA of each of its rows
\* is the sum of that date's components.
C7_ICAFormula ==
    pc = "ica_done" =>
        \A k \in 1..NDates :
            InAllInputs(IcaDate(k)) =>
                /\ \E i \in DOMAIN ICA : ICA[i].date = IcaDate(k)
                /\ \A i \in DOMAIN ICA :
                    ICA[i].date = IcaDate(k) =>
                        /\ ICA[i].ICA[2] > 0
                        /\ 5 * ICA[i].ICA[1] = ICA[i].ICA[2] * ComponentSum(IcaDate(k))

\* C7's case: a date present in all inputs whose ICA is 6/5, after an
\* earlier wind date that the rainfall table lacks.
C7_Witness ==
    /\ pc = "ica_done"
    /\ \E i \in DOMAIN ICA :
        /\ i > 1
        /\ InAllInputs(ICA[i].date)
        /\ ICA[i].ICA = Frac(6, 5)
        /\ ICA[i - 1].date \notin DatesOf(df_rainfall)

\* C8 as stated: the ICA series has an entry for a date exactly when the date
\* is present in all component inputs, one entry per such date.
C8_InnerJoin ==
    pc = "ica_done" =>
        /\ DatesOf(ICA) = {IcaDate(k) : k \in 1..NDates} \cap
                              {d \in DatesOf(df_wind) : InAllInputs(d)}
        /\ \A i, j \in DOMAIN ICA : ICA[i].date = ICA[j].date => i = j

\* C8 as the code has it: the ICA series has exactly one entry per date of
\* the wind input, in the wind input's order, whatever the other inputs
\* hold; the entry's ICA is a number exactly when the date is present in all
\* component inputs and NaN otherwise.
C8_LeftJoinOnWind ==
    pc = "ica_done" =>
        /\ Len(ICA) = Len(df_wind)
        /\ \A i \in DOMAIN ICA :
            /\ ICA[i].date = df_wind[i].date
            /\ IsFinite(ICA[i].ICA) <=> InAllInputs(ICA[i].date)
            /\ IsNaN(ICA[i].ICA) <=> ~InAllInputs(ICA[i].date)

\* C8's case: two wind dates, the first missing from the drought input and
\* kept with a NaN ICA, the second present everywhere.
C8_Witness ==
    /\ pc = "ica_done"
    /\ Len(ICA) = 2
    /\ ICA[1].date \notin DatesOf(df_drought)
    /\ IsNaN(ICA[1].ICA)
    /\ InAllInputs(ICA[2].date)
    /\ IsFinite(ICA[2].ICA)

-----------------------------------------------------------------------------
(***************************************************************************)
(* The wind component (calcular_anomalias_viento.py) and the regional      *)
(* means of the wind, rain and drought anomalies.                          *)
(***************************************************************************)

\* grid cells of the wind field
CellsW == {1, 2}

\* days of the month the wind file holds
NWindDays == 3

\* daily wind speeds (m/s)
Speeds == {1, 2}

\* p * speed^3 / 2 with p = 1.23 (kg/m3), as the exact fraction 123 s^3 / 200
WindPower(speed) == Frac(123 * speed * speed * speed, 200)

\* a > b on finite floats
FGreater(a, b) == a[1] * b[2] > b[1] * a[2]

\* the exceedance thresholds of the percentile file: 0 and the power of 1 m/s
Thresholds == {FInt(0), WindPower(1)}

\* baseline mean and standard deviation of the exceedance fraction
MeansW == {FInt(0), Frac(1, 3)}
StdsW == {FInt(0), Frac(1, 3)}

\* a raw count of the days above the threshold
CountAbove(speeds, threshold) ==
    FInt(Cardinality({i \in DOMAIN speeds :
                         FGreater(WindPower(speeds[i]), threshold)}))

\* compute_occurrences: (daily_data > percentile).mean(dim='time')
compute_occurrences_wind(speeds, threshold) ==
    Div(FInt(Cardinality({i \in DOMAIN speeds :
                             FGreater(WindPower(speeds[i]), threshold)})),
        FInt(Len(speeds)))

\* calculate_anomalies on float features
calculate_anomalies_wind(cnt, pct) ==
    [c \in DOMAIN cnt |->
        Div(FSub(cnt[c], pct[c].mean_exceeding), pct[c].std_exceeding)]

InitWind ==
    /\ pc = "wind"
    /\ ds \in [CellsW -> [1..NWindDays -> Speeds]]
    /\ percentiles \in [CellsW -> [threshold : Thresholds,
                                   mean_exceeding : MeansW,
                                   std_exceeding : StdsW]]
    /\ count_above = Idle /\ anomalies_above = Idle /\ ds_month = Idle
    /\ anomalias_resultado = Idle

\* calculos_componente_viento from the loaded month on
CalculosComponenteViento ==
    /\ pc = "wind"
    /\ pc' = "wind_done"
    /\ \E cnt \in {[c \in CellsW |->
                      compute_occurrences_wind(ds[c], percentiles[c].threshold)]} :
        \E an \in {calculate_anomalies_wind(cnt, percentiles)} :
            /\ count_above' = cnt
            /\ anomalies_above' = an
            /\ ds_month' = [count_above |-> SpatialMean(cnt),
                            anomalies_above |-> SpatialMean(an)]
    /\ UNCHANGED <<ds, percentiles, anomalias_resultado>>
    /\ UNCHANGED <<stdVars, precipVars, yearVars, icaVars>>
    /\ UNCHANGED <<occVars, statVars, resampleVars, regionVars, finalVars>>

\* procesar_anomalias after the anomalies: the regional mean per timestamp,
\* anomalias.groupby("time.month").mean(dim=["latitude", "longitude"])
ProcesarAnomalias ==
    /\ pc = "rain_done"
    /\ pc' = "rain_mean"
    /\ anomalias_resultado' =
          [i \in DOMAIN data1.time |->
              SpatialMean([c \in Cells |-> anomalias_ds[c][i]])]
    /\ UNCHANGED <<ds, percentiles, count_above, anomalies_above, ds_month>>
    /\ UNCHANGED <<stdVars, precipVars, yearVars, icaVars>>
    /\ UNCHANGED <<occVars, statVars, resampleVars, regionVars, finalVars>>

InitRegional ==
    /\ \/ InitRain /\ WindIdle
       \/ InitWind /\ StdIdle
    /\ PrecipIdle /\ YearIdle /\ IcaIdle
    /\ OccIdle /\ StatIdle /\ ResampleIdle /\ RegionIdle /\ FinalIdle

NextRegional == AlinearAnomalias \/ ProcesarAnomalias \/ CalculosComponenteViento

SpecRegional == InitRegional /\ [][NextRegional]_vars

InitWindMonth ==
    /\ InitWind
    /\ StdIdle /\ PrecipIdle /\ YearIdle /\ IcaIdle
    /\ OccIdle /\ StatIdle /\ ResampleIdle /\ RegionIdle /\ FinalIdle

\* one month of the wind component alone
SpecWind == InitWindMonth /\ [][CalculosComponenteViento]_vars

\* C11: the regional mean of the wind anomalies, and of the rain and drought
\* anomalies, of a month is never infinite or NaN, whatever cell has a
\* baseline standard deviation of 0.
C11_RegionalMeanFinite ==
    /\ pc = "wind_done" => IsFinite(ds_month.anomalies_above)
    /\ pc = "rain_mean" =>
          \A i \in DOMAIN anomalias_resultado : IsFinite(anomalias_resultado[i])

-----------------------------------------------------------------------------
(***************************************************************************)
(* Claims about missing input files of the yearly batch (SpecBatch)        *)
(***************************************************************************)

\* C12: a year whose GRIB file is absent is skipped and never aborts the
\* batch: the run is never aborted, and when it ends every year whose file
\* exists has been processed.
C12_MissingYearSkipped ==
    /\ pc # "aborted"
    /\ pc = "batch_done" =>
          \A y \in BatchYears :
              grib[y] => \E i \in DOMAIN written : written[i].year = y

-----------------------------------------------------------------------------
(***************************************************************************)
(* The region loop of calcular_anomalias_regiones.py                       *)
(***************************************************************************)

\* number of regions in the list
NRegions == 3

\* where the loop goes after a region when nothing catches its exception
Propagate(raised) == IF raised THEN "Exception" ELSE "regions"

\* try: procesar_anomalias_region(...) except Exception: print; continue
ExceptContinue(raised) == "regions"

\* what one iteration prints: the region's own last line, or the handler's
RegionMessage(i, raised) ==
    IF raised THEN <<"Error en el proceso para", i>>
    ELSE <<"Proceso finalizado para", i>>

InitRegions ==
    /\ pc = "regions"
    /\ regiones \in [1..NRegions -> [exists : BOOLEAN, raises : BOOLEAN]]
    /\ region = 1
    /\ attempted = <<>>
    /\ log = <<>>
    /\ StdIdle /\ PrecipIdle /\ YearIdle /\ IcaIdle
    /\ WindIdle /\ OccIdle /\ StatIdle /\ ResampleIdle /\ FinalIdle

\* one iteration: os.makedirs (FileExistsError is passed over), then
\* procesar_anomalias_region inside its try
ProcessRegion ==
    /\ pc = "regions" /\ region \in 1..NRegions
    /\ attempted' = Append(attempted, region)
    /\ pc' = ExceptContinue(regiones[region].raises)
    /\ log' = IF pc' = "regions" \/ ~regiones[region].raises
              THEN Append(log, RegionMessage(region, regiones[region].raises))
              ELSE log
    /\ region' = IF pc' = "regions" THEN region + 1 ELSE region
    /\ regiones' = [regiones EXCEPT ![region].exists = TRUE]
    /\ UNCHANGED <<stdVars, precipVars, yearVars, icaVars>>
    /\ UNCHANGED <<windVars, occVars, statVars, resampleVars, finalVars>>

\* after the loop: print("Proceso finalizado")
FinishRegions ==
    /\ pc = "regions" /\ region = NRegions + 1
    /\ pc' = "regions_done"
    /\ log' = Append(log, <<"Proceso finalizado">>)
    /\ UNCHANGED <<regiones, region, attempted>>
    /\ UNCHANGED <<stdVars, precipVars, yearVars, icaVars>>
    /\ UNCHANGED <<windVars, occVars, statVars, resampleVars, finalVars>>

NextRegions == ProcessRegion \/ FinishRegions

\* the script runs on: a loop iteration that can be taken is taken
SpecRegions ==
    InitRegions /\ [][NextRegions]_vars /\ WF_vars(NextRegions)

\* the regions attempted so far are 1, 2, ... in list order, each once, and
\* each has left its one message, an error message exactly when it raised
AttemptedInOrder ==
    /\ Len(attempted) = region - 1
    /\ \A i \in DOMAIN attempted :
        /\ attempted[i] = i
        /\ log[i] = RegionMessage(i, regiones[i].raises)

\* C13: every region of the list is attempted exactly once in list order, an
\* exception raised by one region is caught and logged and keeps no later
\* region from being processed, and the loop always reaches the final
\* "Proceso finalizado" message.
C13_RegionsIsolated ==
    /\ [](pc \in {"regions", "regions_done"} /\ AttemptedInOrder)
    /\ <>(/\ pc = "regions_done"
          /\ attempted = [i \in 1..NRegions |-> i]
          /\ log[Len(log)] = <<"Proceso finalizado">>)

\* C13's case: the first region raised, the later ones were still processed
\* and the final message was printed
C13_Witness ==
    /\ pc = "regions_done"
    /\ regiones[1].raises /\ ~regiones[2].raises
    /\ Len(attempted) = NRegions
    /\ log[1] = <<"Error en el proceso para", 1>>
    /\ log[2] = <<"Proceso finalizado para", 2>>
    /\ log[NRegions + 1] = <<"Proceso finalizado">>

-----------------------------------------------------------------------------
(***************************************************************************)
(* Temperature occurrences (calcular_anomalias.py): resample_to_daily and  *)
(* compute_occurrences for one cell and one month.                         *)
(***************************************************************************)

\* days of the month and hourly records per day
NTempDays == 2
HoursPerDay == 2

\* hourly temperatures and percentile thresholds (degrees Celsius)
Temps == 0..2
Percentiles10 == {0, 1}
Percentiles90 == {1, 2}

\* the calendar day of hourly record h
DayOf(h) == ((h - 1) \div HoursPerDay) + 1

\* the hourly records of calendar day dd
HoursOf(grid, dd) == {h \in DOMAIN grid : DayOf(h) = dd}

DaysOf(grid) == {DayOf(h) : h \in DOMAIN grid}

\* resample(time='1D').max(dim='time') and .min(dim='time')
resample_to_daily(grid) ==
    [daily_max |-> [dd \in DaysOf(grid) |->
                       Max({grid[h] : h \in HoursOf(grid, dd)})],
     daily_min |-> [dd \in DaysOf(grid) |->
                       Min({grid[h] : h \in HoursOf(grid, dd)})]]

\* a comparison that also counts a day equal to the threshold
AtLeast(a, b) == a >= b

\* daily_data > percentile_90, and percentile_10 > daily_data
Exceeds(a, b) == a > b

\* compute_occurrences: the two counts of a daily series
compute_occurrences(daily, percentile_10, percentile_90) ==
    [count_above_90 |->
        Cardinality({dd \in DOMAIN daily : Exceeds(daily[dd], percentile_90)}),
     count_below_10 |->
        Cardinality({dd \in DOMAIN daily : Exceeds(percentile_10, daily[dd])})]

InitOcc ==
    /\ pc = "occ"
    /\ t2m \in [1..(NTempDays * HoursPerDay) -> Temps]
    /\ pctl \in [percentile_10_max : Percentiles10,
                 percentile_90_max : Percentiles90,
                 percentile_10_min : Percentiles10,
                 percentile_90_min : Percentiles90]
    /\ daily_max = Idle /\ daily_min = Idle /\ occurrences = Idle
    /\ StdIdle /\ PrecipIdle /\ YearIdle /\ IcaIdle
    /\ WindIdle /\ StatIdle /\ ResampleIdle /\ RegionIdle /\ FinalIdle

\* calcular_amomalias from the loaded month to the four counts
ComputeOccurrences ==
    /\ pc = "occ"
    /\ pc' = "occ_done"
    /\ \E dly \in {resample_to_daily(t2m)} :
        /\ daily_max' = dly.daily_max
        /\ daily_min' = dly.daily_min
        /\ occurrences' =
              [max |-> compute_occurrences(dly.daily_max,
                           pctl.percentile_10_max, pctl.percentile_90_max),
               min |-> compute_occurrences(dly.daily_min,
                           pctl.percentile_10_min, pctl.percentile_90_min)]
    /\ UNCHANGED <<t2m, pctl>>
    /\ UNCHANGED <<stdVars, precipVars, yearVars, icaVars>>
    /\ UNCHANGED <<windVars, statVars, resampleVars, regionVars, finalVars>>

SpecOcc == InitOcc /\ [][ComputeOccurrences]_vars

\* the hourly values of day dd (dd in 1..NTempDays)
HourlyOf(dd) == {t2m[h] : h \in ((dd - 1) * HoursPerDay + 1)..(dd * HoursPerDay)}

\* C14: the counts are the number of days whose daily maximum (minimum) is
\* strictly above the 90th percentile and the number whose daily maximum
\* (minimum) is strictly below the 10th percentile, the daily values being
\* the largest and the smallest hourly value of the calendar day; a day
\* equal to a threshold is in neither count.
C14_StrictDailyCounts ==
    pc = "occ_done" =>
        /\ occurrences.max.count_above_90 =
              Cardinality({dd \in 1..NTempDays :
                  \E v \in HourlyOf(dd) : v > pctl.percentile_90_max})
        /\ occurrences.max.count_below_10 =
              Cardinality({dd \in 1..NTempDays :
                  \A v \in HourlyOf(dd) : v < pctl.percentile_10_max})
        /\ occurrences.min.count_above_90 =
              Cardinality({dd \in 1..NTempDays :
                  \A v \in HourlyOf(dd) : v > pctl.percentile_90_min})
        /\ occurrences.min.count_below_10 =
              Cardinality({dd \in 1..NTempDays :
                  \E v \in HourlyOf(dd) : v < pctl.percentile_10_min})

\* C14's case: one day whose maximum equals the 90th percentile and whose
\* minimum equals the 10th, counted nowhere, beside a day counted as above
\* the 90th percentile of the maxima
C14_Witness ==
    /\ pc = "occ_done"
    /\ \E d1, d2 \in 1..NTempDays :
        /\ daily_max[d1] = pctl.percentile_90_max
        /\ daily_min[d1] = pctl.percentile_10_min
        /\ daily_min[d1] < daily_max[d1]
        /\ daily_max[d2] > pctl.percentile_90_max
    /\ occurrences.max.count_above_90 = 1
    /\ occurrences.min.count_below_10 = 0

-----------------------------------------------------------------------------
(***************************************************************************)
(* Monthly baseline statistics (calcular_estadisticas) of one cell.  The   *)
(* samples are monthly values on the calendar of MonthsPerYear months.     *)
(***************************************************************************)

\* longest series of monthly samples
NSamples == 5

\* values of the samples
SampleValues == 0..2

\* the 'time' of a series of len consecutive months from month m0 of FirstYear
MonthlyTime(m0, len) ==
    [i \in 1..len |->
        [year |-> FirstYear + ((m0 + i - 2) \div MonthsPerYear),
         month |-> ((m0 + i - 2) % MonthsPerYear) + 1]]

\* every calendar month, found in the data or not
AllMonths(dat) == 1..MonthsPerYear

\* groupby('time.month'): the groups are the months that occur in the data
MonthsFound(dat) == {dat.time[i].month : i \in DOMAIN dat.time}

\* the positions of the samples of month m, whatever their year; mean and
\* std skip the samples that are NaN
GroupOf(dat, m) ==
    {i \in DOMAIN dat.time : dat.time[i].month = m /\ ~IsNaN(dat.tp[i])}

RECURSIVE SumOver(_, _)
SumOver(f, S) ==
    IF S = {} THEN 0
    ELSE LET i == CHOOSE x \in S : TRUE IN f[i] + SumOver(f, S \ {i})

\* mean(dim='time') of the samples at the positions g
MeanOver(f, g) == Div(FSum(f, g), FInt(Cardinality(g)))

\* the variance with divisor n - 1 (ddof=1)
SampleVariance(f, g) ==
    LET mu == MeanOver(f, g)
    IN  Div(FSum([i \in g |-> FMul(FSub(f[i], mu), FSub(f[i], mu))], g),
            FInt(Cardinality(g) - 1))

\* the variance with divisor n, the default ddof=0 of std(dim='time'): the
\* mean of the squared deviations from the mean
Variance(f, g) ==
    LET mu == MeanOver(f, g)
    IN  MeanOver([i \in g |-> FMul(FSub(f[i], mu), FSub(f[i], mu))], g)

\* the square root of float v, kept symbolic
Sqrt(v) == [sqrt |-> v]

\* calcular_estadisticas: mean and std of each month group
calcular_estadisticas(dat) ==
    [mean_tp |-> [m \in MonthsFound(dat) |-> MeanOver(dat.tp, GroupOf(dat, m))],
     std_tp |-> [m \in MonthsFound(dat) |->
                    Sqrt(Variance(dat.tp, GroupOf(dat, m)))]]

InitStats ==
    /\ pc = "stats"
    /\ \E m0 \in 1..MonthsPerYear : \E len \in 1..NSamples :
        \E v \in [1..len -> SampleValues] :
            stat_data = [time |-> MonthlyTime(m0, len), tp |-> v]
    /\ mean_tp = Idle /\ std_tp = Idle
    /\ tp_filtered = Idle /\ p_lluvia = Idle /\ d_sequia = Idle
    /\ StdIdle /\ PrecipIdle /\ YearIdle /\ IcaIdle
    /\ WindIdle /\ OccIdle /\ ResampleIdle /\ RegionIdle /\ FinalIdle

CalcularEstadisticas ==
    /\ pc = "stats"
    /\ pc' = "stats_done"
    /\ \E r \in {calcular_estadisticas(
                   [time |-> stat_data.time,
                    tp |-> [i \in DOMAIN stat_data.tp |-> FInt(stat_data.tp[i])]])} :
        /\ mean_tp' = r.mean_tp
        /\ std_tp' = r.std_tp
    /\ UNCHANGED <<stat_data, tp_filtered, p_lluvia, d_sequia>>
    /\ UNCHANGED <<stdVars, precipVars, yearVars, icaVars>>
    /\ UNCHANGED <<windVars, occVars, resampleVars, regionVars, finalVars>>

SpecStats == InitStats /\ [][CalcularEstadisticas]_vars

\* the samples of calendar month m, as positions of the input
SamplesOf(m) == {i \in DOMAIN stat_data.tp : stat_data.time[i].month = m}

SumOfSamples(m) == SumOver(stat_data.tp, SamplesOf(m))

SumOfSquares(m) ==
    SumOver([i \in SamplesOf(m) |-> stat_data.tp[i] * stat_data.tp[i]],
            SamplesOf(m))

\* the samples of every month are grouped irrespective of year and the mean
\* is their arithmetic mean
GroupedMean ==
    \A m \in DOMAIN mean_tp :
        /\ SamplesOf(m) # {}
        /\ IsFinite(mean_tp[m])
        /\ mean_tp[m][1] * Cardinality(SamplesOf(m))
              = mean_tp[m][2] * SumOfSamples(m)

\* C16 as stated: per month, the arithmetic mean and the standard deviation
\* with divisor n - 1 of the samples of that month, whatever their year.
C16_SampleStd ==
    pc = "stats_done" =>
        /\ GroupedMean
        /\ \A m \in DOMAIN std_tp :
            LET n == Cardinality(SamplesOf(m))
                v == std_tp[m].sqrt
            IN  n > 1 =>
                  /\ IsFinite(v)
                  /\ v[1] * n * (n - 1)
                        = v[2] * (n * SumOfSquares(m)
                                    - SumOfSamples(m) * SumOfSamples(m))

\* C16 as the code has it: per month, the arithmetic mean and the standard
\* deviation with divisor n (the population standard deviation) of the
\* samples of that month, whatever their year; one sample gives std 0.
C16_PopulationStd ==
    pc = "stats_done" =>
        /\ GroupedMean
        /\ \A m \in DOMAIN std_tp :
            LET n == Cardinality(SamplesOf(m))
                v == std_tp[m].sqrt
            IN  /\ IsFinite(v)
                /\ v[1] * n * n
                      = v[2] * (n * SumOfSquares(m)
                                  - SumOfSamples(m) * SumOfSamples(m))

\* C16's case: a month with samples 0 and 2 from two different years: mean 1
\* and variance 1 (divisor 2), where the divisor 1 would give 2
C16_Witness ==
    /\ pc = "stats_done"
    /\ \E m \in DOMAIN std_tp :
        /\ Cardinality(SamplesOf(m)) = 2
        /\ \E i, j \in SamplesOf(m) :
            /\ stat_data.time[i].year # stat_data.time[j].year
            /\ stat_data.tp[i] = 0 /\ stat_data.tp[j] = 2
        /\ mean_tp[m] = FInt(1)
        /\ std_tp[m] = Sqrt(FInt(1))

-----------------------------------------------------------------------------
(***************************************************************************)
(* resample_to_daily_precipitation: the shift to UTC-5 and the daily sums  *)
(* of one cell.  Times are hours since midnight UTC of the first day.      *)
(***************************************************************************)

\* records of the series handed to the function, and calls made on it
NRecords == 6
NCalls == 2

\* hours between two records, hours of a day, and the shift of line 51
RecordStep == 6
HoursInDay == 24
ShiftHours == 5

\* precipitation of a record
RecordValues == {0, 1}

\* valid_time.dt.floor("D"), as a day number (day 0 starts at hour 0)
FloorDay(h) == h \div HoursInDay

\* groupby(valid_time.dt.floor("D")).sum(): [day -> sum of its records]
DailySums(valid_time, tp) ==
    [dd \in {FloorDay(valid_time[i]) : i \in DOMAIN valid_time} |->
        SumOver(tp, {i \in DOMAIN valid_time : FloorDay(valid_time[i]) = dd})]

InitResample ==
    /\ pc = "resample"
    /\ \E v \in [1..NRecords -> RecordValues] :
        grid_data = [valid_time |-> [i \in 1..NRecords |-> RecordStep * (i - 1)],
                     tp |-> v]
    /\ daily_sum = <<>>
    /\ StdIdle /\ PrecipIdle /\ YearIdle /\ IcaIdle
    /\ WindIdle /\ OccIdle /\ StatIdle /\ RegionIdle /\ FinalIdle

\* one call of resample_to_daily_precipitation(grid_data): the assignment to
\* grid_data['valid_time'] writes the coordinate of the caller's object
ResampleToDailyPrecipitation ==
    /\ pc = "resample" /\ Len(daily_sum) < NCalls
    /\ \E shifted \in {[i \in DOMAIN grid_data.valid_time |->
                          grid_data.valid_time[i] - ShiftHours]} :
        /\ grid_data' = [grid_data EXCEPT !.valid_time = shifted]
        /\ daily_sum' = Append(daily_sum, DailySums(shifted, grid_data.tp))
    /\ pc' = IF Len(daily_sum') = NCalls THEN "resample_done" ELSE "resample"
    /\ UNCHANGED <<stdVars, precipVars, yearVars, icaVars>>
    /\ UNCHANGED <<windVars, occVars, statVars, regionVars, finalVars>>

SpecResample == InitResample /\ [][ResampleToDailyPrecipitation]_vars

\* C18: resample_to_daily_precipitation never changes its input, valid_time
\* included, and two calls on the same input return the same daily sums.
C18_InputNotMutated ==
    /\ [][grid_data' = grid_data]_vars
    /\ [](\A i, j \in DOMAIN daily_sum : daily_sum[i] = daily_sum[j])

-----------------------------------------------------------------------------
(***************************************************************************)
(* The reference baselines of the main block of anomalies_precipitation.py *)
(* (lines 355-363): the slice to the reference window, calcular_lluvia and *)
(* calcular_sequia.                                                        *)
(***************************************************************************)

\* the reference window 1960-01-01 .. 1990-12-31
RefStartYear == 1960
RefEndYear == 1990

InWindow(t) == RefStartYear <= t.year /\ t.year <= RefEndYear

\* the date of day n of year y0; n <= 0 counts back into the years before
DateFromDay(y0, n) ==
    [year |-> y0 + ((n - 1) \div DaysPerYear),
     month |-> (((n - 1) % DaysPerYear) \div DaysPerMonth) + 1,
     day |-> ((n - 1) % DaysPerMonth) + 1]

\* the precipitation of a month of the year inside the window: all dry, all
\* wet, or wet on its first day only
MonthPatterns == {"dry", "wet", "first"}

PatternValue(pat, day) ==
    IF pat = "wet" \/ (pat = "first" /\ day = 1) THEN 1 ELSE 0

\* no slice: the whole series
NoSlice(dat) == dat

\* tp_daily.sel(time=slice("1960-01-01", "1990-12-31")) of a sorted series
SelWindow(dat) ==
    LET idx == {i \in DOMAIN dat.time : InWindow(dat.time[i])}
        off == IF idx = {} THEN 0 ELSE Min(idx) - 1
    IN  [time |-> [i \in 1..Cardinality(idx) |-> dat.time[i + off]],
         tp |-> [i \in 1..Cardinality(idx) |-> dat.tp[i + off]]]

\* the monthly Rx5day values as a series in calendar order
SeriesOfBins(rx) ==
    LET ks == {BinIndex(b) : b \in DOMAIN rx}
    IN  IF ks = {} THEN [time |-> <<>>, tp |-> <<>>]
        ELSE [time |-> [i \in 1..Cardinality(ks) |-> BinOfIndex(Min(ks) + i - 1)],
              tp |-> [i \in 1..Cardinality(ks) |-> rx[BinOfIndex(Min(ks) + i - 1)]]]

\* calcular_lluvia: the statistics of the monthly Rx5day
calcular_lluvia(dat) ==
    calcular_estadisticas(SeriesOfBins(calcular_5_dias_maximo(dat)))

\* calcular_interpolacion of the baseline script from the annual counts on:
\* the counts are stamped on consecutive year ends from the first valid year
\* and resample('ME').interpolate('linear') fills the month ends between
InterpolateMonthly(annual) ==
    LET ys == DOMAIN annual
        nth(j) == annual[CHOOSE y \in ys : Cardinality({z \in ys : z < y}) = j - 1]
        n == (Cardinality(ys) - 1) * MonthsPerYear + 1
        seg(i) == ((i - 2) \div MonthsPerYear) + 1
        mon(i) == ((i - 2) % MonthsPerYear) + 1
    IN  [time |-> [i \in 1..n |->
                     IF i = 1 THEN [year |-> Min(ys), month |-> MonthsPerYear]
                     ELSE [year |-> Min(ys) + seg(i), month |-> mon(i)]],
         tp |-> [i \in 1..n |->
                     IF i = 1 THEN nth(1)
                     ELSE FAdd(nth(seg(i)),
                               FMul(FSub(nth(seg(i) + 1), nth(seg(i))),
                                    Frac(mon(i), MonthsPerYear)))]]

\* calcular_sequia: the statistics of the interpolated monthly CDD
calcular_sequia(dat) ==
    calcular_estadisticas(InterpolateMonthly(annual_cdd_base(dat)))

\* a daily series that holds one whole year of the window and up to a month
\* of days outside it: before 1 January of the first year of the window, or
\* after 31 December of its last year
InitBaseline ==
    /\ pc = "baseline"
    /\ \E k \in 1..DaysPerMonth : \E o \in [1..k -> Precip] :
        \E mp \in [1..MonthsPerYear -> MonthPatterns] :
            \/ tp_daily =
                 [time |-> [i \in 1..(k + DaysPerYear) |->
                               DateFromDay(RefStartYear, i - k)],
                  tp |-> [i \in 1..(k + DaysPerYear) |->
                             IF i <= k THEN o[i]
                             ELSE PatternValue(
                                      mp[DateFromDay(RefStartYear, i - k).month],
                                      DateFromDay(RefStartYear, i - k).day)]]
            \/ tp_daily =
                 [time |-> [i \in 1..(DaysPerYear + k) |->
                               DateFromDay(RefEndYear, i)],
                  tp |-> [i \in 1..(DaysPerYear + k) |->
                             IF i > DaysPerYear THEN o[i - DaysPerYear]
                             ELSE PatternValue(
                                      mp[DateFromDay(RefEndYear, i).month],
                                      DateFromDay(RefEndYear, i).day)]]
    /\ aux_year = Idle /\ Rx5day = Idle /\ count_most_frequent_da = Idle
    /\ tp_filtered = Idle /\ p_lluvia = Idle /\ d_sequia = Idle
    /\ stat_data = Idle /\ mean_tp = Idle /\ std_tp = Idle
    /\ StdIdle /\ YearIdle /\ IcaIdle
    /\ WindIdle /\ OccIdle /\ ResampleIdle /\ RegionIdle /\ FinalIdle

\* lines 359-363: tp_filtered, p = calcular_lluvia, d = calcular_sequia
ReferenceBaselines ==
    /\ pc = "baseline"
    /\ pc' = "baseline_done"
    /\ \E f \in {SelWindow(tp_daily)} :
        /\ tp_filtered' = f
        /\ p_lluvia' = calcular_lluvia(f)
        /\ d_sequia' = calcular_sequia(f)
    /\ UNCHANGED <<stat_data, mean_tp, std_tp>>
    /\ UNCHANGED <<stdVars, precipVars, yearVars, icaVars>>
    /\ UNCHANGED <<windVars, occVars, resampleVars, regionVars, finalVars>>

SpecBaseline == InitBaseline /\ [][ReferenceBaselines]_vars

\* the series dat with every sample outside the window replaced by fill
OutsideReplaced(dat, fill) ==
    [time |-> dat.time,
     tp |-> [i \in DOMAIN dat.tp |->
                IF InWindow(dat.time[i]) THEN dat.tp[i] ELSE fill]]

\* C19: the rain and drought baselines are computed from the samples inside
\* 1960-01-01..1990-12-31 only: tp_filtered holds exactly the samples of the
\* window, and the series with its samples outside the window replaced (by
\* 0, or by 1) yields the same two baselines, so any two series that agree
\* inside the window yield identical baselines.
C19_WindowOnly ==
    pc = "baseline_done" =>
        /\ \A i \in DOMAIN tp_filtered.time : InWindow(tp_filtered.time[i])
        /\ Len(tp_filtered.time) =
              Cardinality({i \in DOMAIN tp_daily.time : InWindow(tp_daily.time[i])})
        /\ \A fill \in Precip :
              \E f \in {SelWindow(OutsideReplaced(tp_daily, fill))} :
                  /\ calcular_lluvia(f) = p_lluvia
                  /\ calcular_sequia(f) = d_sequia

\* C19's case: a whole wet month after the end of the window, which would
\* be one more Rx5day sample of its calendar month, beside a dry month of
\* the same number inside the window whose baseline mean stays 0
C19_Witness ==
    /\ pc = "baseline_done"
    /\ Len(tp_daily.tp) = DaysPerYear + DaysPerMonth
    /\ tp_daily.time[1].year = RefEndYear
    /\ \A i \in (DaysPerYear + 1)..(DaysPerYear + DaysPerMonth) :
          tp_daily.tp[i] = 1
    /\ p_lluvia.mean_tp[1] = FInt(0)
    /\ DOMAIN d_sequia.mean_tp = {MonthsPerYear}

-----------------------------------------------------------------------------
(***************************************************************************)
(* Rx5day on ramp series: every day holds its day-of-month number or 0.    *)
(***************************************************************************)

\* longest ramp series
NRampDays == 10

InitRamp ==
    /\ pc = "precip"
    /\ \E len \in 1..NRampDays :
        \E v \in [1..len -> BOOLEAN] :
            tp_daily = [time |-> DailyTime(len),
                        tp |-> [i \in 1..len |->
                                   IF v[i] THEN DateOf(i).day ELSE 0]]
    /\ aux_year = Idle /\ Rx5day = Idle /\ count_most_frequent_da = Idle
    /\ StdIdle /\ YearIdle /\ IcaIdle /\ LaterIdle

SpecRamp == InitRamp /\ [][BaselineScript]_vars

\* the records of the first month are exactly the five values 1, 2, 3, 4, 5
FirstMonthIsRamp ==
    /\ {i \in DOMAIN tp_daily.time : Bin(tp_daily.time[i]) = Bin(DateOf(1))} = 1..5
    /\ \A i \in 1..5 : tp_daily.tp[i] = i

\* the Rx5day of bin b is the largest trailing sum among the days of b whose
\* window lies in b, and no window with days of two months is among them
CrossingWindowsExcluded ==
    \A b \in DOMAIN Rx5day :
        IsFinite(Rx5day[b]) =>
            /\ \E i \in WithinMonthDays(tp_daily, b) :
                  Rx5day[b] = FInt(RollingSum(tp_daily.tp)[i])
            /\ \A i \in WithinMonthDays(tp_daily, b) :
                  RollingSum(tp_daily.tp)[i] <= Rx5day[b][1]

\* C20 as stated: the trailing 5-day sums of [1,2,3,4,5] are [1,3,6,10,14]
\* and the month's Rx5day is 14; a window with days of two months is
\* excluded from the maximum.
C20_RampSums14 ==
    pc = "base_done" =>
        /\ FirstMonthIsRamp =>
              /\ SubSeq(RollingSum(tp_daily.tp), 1, 5) = <<1, 3, 6, 10, 14>>
              /\ Rx5day[Bin(DateOf(1))] = FInt(14)
        /\ CrossingWindowsExcluded

\* C20 as the code has it: the trailing 5-day sums of [1,2,3,4,5] are
\* [1,3,6,10,15] and the month's Rx5day is 15; a window with days of two
\* months is excluded from the maximum.
C20_RampSums15 ==
    pc = "base_done" =>
        /\ FirstMonthIsRamp =>
              /\ SubSeq(RollingSum(tp_daily.tp), 1, 5) = <<1, 3, 6, 10, 15>>
              /\ Rx5day[Bin(DateOf(1))] = FInt(15)
        /\ CrossingWindowsExcluded

\* C20's case: the ramp 1..5 in the first month and a dry second month: the
\* windows that span the boundary sum to 14, 12, 9 and 5, the second
\* month's Rx5day is 0
C20_Witness ==
    /\ pc = "base_done"
    /\ FirstMonthIsRamp
    /\ Len(tp_daily.tp) = 2 * DaysPerMonth
    /\ \A i \in 6..Len(tp_daily.tp) : tp_daily.tp[i] = 0
    /\ Rx5day[Bin(DateOf(1))] = FInt(15)
    /\ Rx5day[Bin(DateOf(6))] = FInt(0)
    /\ RollingSum(tp_daily.tp)[6] = 14

-----------------------------------------------------------------------------
(***************************************************************************)
(* A year's daily series with one record missing: the annual CDD of the    *)
(* two extractors on the series as it is, and on the series without one of *)
(* its records.  The year is a leap year of DaysPerYear + 1 days, so that  *)
(* the baseline script keeps it when one record is gone.                   *)
(***************************************************************************)

\* the n-th day of the leap year FirstYear: its last month has one day more
LeapDate(n) ==
    LET m == Min({((n - 1) \div DaysPerMonth) + 1, MonthsPerYear})
    IN  [year |-> FirstYear, month |-> m, day |-> n - (m - 1) * DaysPerMonth]

\* sequence s without its k-th element
RemoveAt(s, k) == SubSeq(s, 1, k - 1) \o SubSeq(s, k + 1, Len(s))

\* the annual CDD the two scripts extract from the series data of one year:
\* the baseline script has no value for a year it filters out
ExtractCDD(data) ==
    [base |-> annual_cdd_base(data), yearly |-> annual_cdd_yearly(data)]

\* the days at the start of the year whose values are drawn one by one
NGapFree == 8

\* a series of 2..NGapFree days, or the whole leap year: its first NGapFree
\* days and then days that are all dry or all wet
InitGap ==
    /\ pc = "gap"
    /\ \E len \in 2..NGapFree : \E v \in [1..len -> Precip] :
          \/ tp_daily = [time |-> [i \in 1..len |-> LeapDate(i)], tp |-> v]
          \/ /\ len = NGapFree
             /\ \E rest \in Precip :
                  tp_daily =
                      [time |-> [i \in 1..(DaysPerYear + 1) |-> LeapDate(i)],
                       tp |-> [i \in 1..(DaysPerYear + 1) |->
                                  IF i <= len THEN v[i] ELSE rest]]
    /\ aux_year = Idle /\ Rx5day = Idle /\ count_most_frequent_da = Idle
    /\ removed = Idle /\ cdd_first = Idle /\ cdd_second = Idle
    /\ StdIdle /\ YearIdle /\ IcaIdle
    /\ WindIdle /\ OccIdle /\ StatIdle /\ ResampleIdle /\ RegionIdle
    /\ StepIdle /\ RxIdle /\ SeaIdle

\* the extractors run on the series as it is
ExtractFull ==
    /\ pc = "gap"
    /\ pc' = "gap_full"
    /\ cdd_first' = ExtractCDD(tp_daily)
    /\ UNCHANGED <<tp_daily, aux_year, Rx5day, count_most_frequent_da>>
    /\ UNCHANGED <<removed, cdd_second>>
    /\ UNCHANGED <<stdVars, yearVars, icaVars>>
    /\ UNCHANGED <<windVars, occVars, statVars, resampleVars, regionVars>>
    /\ UNCHANGED <<stepVars, rxVars, seaVars>>

\* the record of one day goes missing
RemoveRecord ==
    /\ pc = "gap_full"
    /\ pc' = "gap_removed"
    /\ \E k \in DOMAIN tp_daily.tp :
        /\ removed' = [position |-> k, value |-> tp_daily.tp[k]]
        /\ tp_daily' = [time |-> RemoveAt(tp_daily.time, k),
                        tp |-> RemoveAt(tp_daily.tp, k)]
    /\ UNCHANGED <<aux_year, Rx5day, count_most_frequent_da>>
    /\ UNCHANGED <<cdd_first, cdd_second>>
    /\ UNCHANGED <<stdVars, yearVars, icaVars>>
    /\ UNCHANGED <<windVars, occVars, statVars, resampleVars, regionVars>>
    /\ UNCHANGED <<stepVars, rxVars, seaVars>>

\* the extractors run on the series without the record
ExtractGapped ==
    /\ pc = "gap_removed"
    /\ pc' = "gap_done"
    /\ cdd_second' = ExtractCDD(tp_daily)
    /\ UNCHANGED <<tp_daily, aux_year, Rx5day, count_most_frequent_da>>
    /\ UNCHANGED <<removed, cdd_first>>
    /\ UNCHANGED <<stdVars, yearVars, icaVars>>
    /\ UNCHANGED <<windVars, occVars, statVars, resampleVars, regionVars>>
    /\ UNCHANGED <<stepVars, rxVars, seaVars>>

NextGap == ExtractFull \/ RemoveRecord \/ ExtractGapped

SpecGap == InitGap /\ [][NextGap]_vars

\* the annual CDD without the record is not above the one with it, in the
\* yearly script and, for a year the baseline script keeps both times, in
\* the baseline script
GapNotAbove ==
    /\ cdd_second.yearly[1] <= cdd_first.yearly[1]
    /\ \A y \in DOMAIN cdd_first.base \cap DOMAIN cdd_second.base :
          cdd_second.base[y][1] <= cdd_first.base[y][1]

\* C21 as stated: removing any single day's record, dry or wet, from a
\* year's daily series never increases the year's CDD value.
C21_GapNeverIncreases ==
    pc = "gap_done" => GapNotAbove

\* C21 for the record of a dry day: removing the record of a single dry day
\* from a year's daily series never increases the year's CDD value.
C21_DryGapNeverIncreases ==
    (pc = "gap_done" /\ removed.value < DryThreshold) => GapNotAbove

\* C21's case: a leap year the baseline script keeps both times, a dry day
\* removed, and a CDD that shrank in both scripts
C21_Witness ==
    /\ pc = "gap_done"
    /\ removed.value < DryThreshold
    /\ FirstYear \in DOMAIN cdd_first.base \cap DOMAIN cdd_second.base
    /\ cdd_second.base[FirstYear][1] < cdd_first.base[FirstYear][1]
    /\ cdd_second.yearly[1] < cdd_first.yearly[1]

-----------------------------------------------------------------------------
(***************************************************************************)
(* The steps of calcular_interpolacion up to the annual counts, in the     *)
(* baseline script (year filter, binarization, cumulative sum per year,    *)
(* count, year-end timestamps, monthly interpolation) and in the yearly    *)
(* script (slice of the year, binarization, cumulative sum, count), on     *)
(* series of several years some of which lack their last day.              *)
(***************************************************************************)

\* years of a drawn series
NCddYears == 3

CddYears == FirstYear..(FirstYear + NCddYears - 1)

\* the precipitation of a year: all dry, all wet, wet on its first day only,
\* wet on days 4 and 7 only, wet on the even days
YearPatterns == {"dry", "wet", "first", "mid", "even"}

YearPatternValue(pat, d) ==
    CASE pat = "dry" -> 0
      [] pat = "wet" -> 1
      [] pat = "first" -> IF d = 1 THEN 1 ELSE 0
      [] pat = "mid" -> IF d \in {4, 7} THEN 1 ELSE 0
      [] OTHER -> IF d % 2 = 0 THEN 1 ELSE 0

\* the elements of a set of integers in increasing order
Ordered(S) ==
    IF S = {} THEN <<>>
    ELSE LET lo == CHOOSE i \in S : \A k \in S : i <= k
             hi == CHOOSE i \in S : \A k \in S : k <= i
         IN  SelectSeq([n \in 1..(hi - lo + 1) |-> lo + n - 1],
                       LAMBDA n : n \in S)

\* the daily series of the years CddYears with the patterns pat, without the
\* last day of the years in short
CddSeries(pat, short) ==
    LET days == Ordered({n \in 1..(NCddYears * DaysPerYear) :
                    ~(DateOf(n).year \in short /\ n % DaysPerYear = 0)})
    IN  [time |-> [j \in DOMAIN days |-> DateOf(days[j])],
         tp |-> [j \in DOMAIN days |->
                    YearPatternValue(pat[DateOf(days[j]).year],
                                     ((days[j] - 1) % DaysPerYear) + 1)]]

\* anios_validos: the years with at least a full year of records
ValidYears(data) ==
    {y \in {data.time[i].year : i \in DOMAIN data.time} :
        Cardinality(YearIdx(data.time, y)) >= DaysPerYear}

\* data.sel(time=np.isin(data['time.year'], anios_validos))
SelYears(data, ys) ==
    LET keep == Ordered({i \in DOMAIN data.time : data.time[i].year \in ys})
    IN  [time |-> [j \in DOMAIN keep |-> data.time[keep[j]]],
         tp |-> [j \in DOMAIN keep |-> data.tp[keep[j]]]]

\* data.groupby('time.year').cumsum(dim='time')
GroupCumSum(data) ==
    [i \in DOMAIN data.tp |->
        CumSum(data.tp, YearIdx(data.time, data.time[i].year))[i]]

\* the values of the records of year y
ValuesOfYear(data, y) == [i \in YearIdx(data.time, y) |-> data.tp[i]]

\* apply_ufunc(count_most_frequent_with_condition,
\* data_cumsum.groupby('time.year')) of the baseline script
CountBase(cum) ==
    [y \in {cum.time[i].year : i \in DOMAIN cum.time} |->
        FInt(count_most_frequent_base(ValuesOfYear(cum, y)))]

\* the same of the yearly script
CountYearly(cum) ==
    [y \in {cum.time[i].year : i \in DOMAIN cum.time} |->
        FInt(count_most_frequent_yearly(ValuesOfYear(cum, y)))]

\* cftime_range(start=str(min_year), periods=len(year), freq='YE'): the
\* counts, in the order of their years, on consecutive year ends from the
\* first year
StampYearEnds(annual) ==
    LET sorted == Ordered(DOMAIN annual)
    IN  [k \in DOMAIN sorted |->
            [year |-> sorted[1] + k - 1, tp |-> annual[sorted[k]]]]

\* a series of NCddYears years of which at least one is whole
InitCdd ==
    /\ pc = "cdd"
    /\ \E pat \in [CddYears -> YearPatterns] :
        \E short \in (SUBSET CddYears) \ {CddYears} :
            tp_daily = CddSeries(pat, short)
    /\ aux_year = Idle /\ Rx5day = Idle /\ count_most_frequent_da = Idle
    /\ binary_data = Idle /\ data_cumsum = Idle /\ stamped = Idle
    /\ cdd_monthly = Idle
    /\ StdIdle /\ YearIdle /\ IcaIdle
    /\ WindIdle /\ OccIdle /\ StatIdle /\ ResampleIdle /\ RegionIdle
    /\ GapIdle /\ RxIdle /\ SeaIdle

\* calcular_interpolacion(data) of anomalies_precipitation.py
BaselineSteps ==
    /\ pc = "cdd"
    /\ pc' = "cdd_base"
    /\ \E valid \in {SelYears(tp_daily, ValidYears(tp_daily))} :
        \E b \in {[time |-> valid.time, tp |-> Binarize(valid.tp)]} :
            \E c \in {[time |-> b.time, tp |-> GroupCumSum(b)]} :
                /\ binary_data' = b
                /\ data_cumsum' = c
                /\ count_most_frequent_da' = CountBase(c)
                /\ stamped' = StampYearEnds(CountBase(c))
                /\ cdd_monthly' = InterpolateMonthly(CountBase(c))
    /\ UNCHANGED <<tp_daily, aux_year, Rx5day>>
    /\ UNCHANGED <<stdVars, yearVars, icaVars>>
    /\ UNCHANGED <<windVars, occVars, statVars, resampleVars, regionVars>>
    /\ UNCHANGED <<gapVars, rxVars, seaVars>>

\* procesar_anomalias of calcular_anomalias_lluvia.py for one year: the
\* slice of the year, then calcular_interpolacion up to the annual count
YearlySteps ==
    /\ pc = "cdd"
    /\ pc' = "cdd_year"
    /\ \E y \in {tp_daily.time[i].year : i \in DOMAIN tp_daily.time} :
        \E sliced \in {SliceYear(tp_daily, y)} :
            \E b \in {[time |-> sliced.time, tp |-> Binarize(sliced.tp)]} :
                \E c \in {[time |-> b.time,
                           tp |-> CumSum(b.tp, DOMAIN b.tp)]} :
                    /\ aux_year' = y
                    /\ binary_data' = b
                    /\ data_cumsum' = c
                    /\ count_most_frequent_da' = CountYearly(c)
    /\ UNCHANGED <<tp_daily, Rx5day, stamped, cdd_monthly>>
    /\ UNCHANGED <<stdVars, yearVars, icaVars>>
    /\ UNCHANGED <<windVars, occVars, statVars, resampleVars, regionVars>>
    /\ UNCHANGED <<gapVars, rxVars, seaVars>>

NextCdd == BaselineSteps \/ YearlySteps

SpecCdd == InitCdd /\ [][NextCdd]_vars

\* the steps give the annual counts of the extractors
CddStepsAgree ==
    /\ pc = "cdd_base" => count_most_frequent_da = annual_cdd_base(tp_daily)
    /\ pc = "cdd_year" =>
          count_most_frequent_da[aux_year] =
              annual_cdd_yearly(SliceYear(tp_daily, aux_year))

-----------------------------------------------------------------------------
(***************************************************************************)
(* Properties of the steps of calcular_interpolacion (SpecCdd).            *)
(***************************************************************************)

\* the scripts have run their steps
CddDone == pc \in {"cdd_base", "cdd_year"}

\* the cumulative values of the records of year y
CumValues(y) ==
    {data_cumsum.tp[i] : i \in YearIdx(data_cumsum.time, y)}

\* the number of records of year y whose cumulative value is x
Frequency(y, x) ==
    Cardinality({i \in YearIdx(data_cumsum.time, y) : data_cumsum.tp[i] = x})

\* the highest frequency among the cumulative values of year y
HighestFrequency(y) == Max({Frequency(y, x) : x \in CumValues(y)})

\* C22: count_most_frequent_with_condition returns the highest frequency
\* among the values of its input when the value 0 occurs in it, and the
\* highest frequency minus 1 when 0 does not occur, in the baseline script
\* and in the yearly script.
C22_ConditionInBothScripts ==
    CddDone =>
        \A y \in DOMAIN count_most_frequent_da :
            count_most_frequent_da[y] =
                FInt(IF 0 \in CumValues(y) THEN HighestFrequency(y)
                     ELSE HighestFrequency(y) - 1)

\* the precipitation of the input on the day with timestamp t
InputValue(t) ==
    tp_daily.tp[CHOOSE i \in DOMAIN tp_daily.time : tp_daily.time[i] = t]

\* the records of the year of record i up to record i, in the binary series
UpTo(i) ==
    {j \in DOMAIN binary_data.time :
        binary_data.time[j].year = binary_data.time[i].year /\ j <= i}

C24_CumSumRestartsEachYear ==
    CddDone =>
        /\ \A i \in DOMAIN data_cumsum.tp :
              data_cumsum.tp[i] = SumOver(binary_data.tp, UpTo(i))
        /\ pc = "cdd_year" =>
              \A i \in DOMAIN data_cumsum.time :
                  data_cumsum.time[i].year = aux_year

\* C24's case: the baseline script on two whole years, a wet year and a
\* year that begins dry: the cumulative sum is back at 0 on 1 January
C24_Witness ==
    /\ pc = "cdd_base"
    /\ \E i \in DOMAIN data_cumsum.tp :
        /\ i > 1
        /\ data_cumsum.time[i].year = data_cumsum.time[i - 1].year + 1
        /\ data_cumsum.tp[i - 1] = DaysPerYear * One
        /\ data_cumsum.tp[i] = 0

\* the k-th year, in increasing order, for which the baseline script has an
\* annual count
NthCounted(k) == Ordered(DOMAIN count_most_frequent_da)[k]

\* C28: years with fewer than a full year of daily records are excluded, and
\* every remaining annual CDD value is time-stamped with the year-end of the
\* calendar year whose data produced it, also when an excluded year lies
\* between two retained years.
C28_StampedWithOwnYear ==
    pc = "cdd_base" =>
        /\ DOMAIN count_most_frequent_da =
              {y \in CddYears :
                  Cardinality(YearIdx(tp_daily.time, y)) >= DaysPerYear}
        /\ Len(stamped) = Cardinality(DOMAIN count_most_frequent_da)
        /\ \A k \in DOMAIN stamped :
              /\ stamped[k].year = NthCounted(k)
              /\ stamped[k].tp = count_most_frequent_da[NthCounted(k)]

-----------------------------------------------------------------------------
(***************************************************************************)
(* The steps of calcular_5_dias_maximo: the rolling sum of every record,   *)
(* the month mask and the monthly maximum, on short daily series.          *)
(***************************************************************************)

\* longest series drawn
NRxDays == 8

\* daily precipitation amounts
RxValues == 0..2

InitRx ==
    /\ pc = "rx"
    /\ \E len \in 1..NRxDays : \E v \in [1..len -> RxValues] :
          tp_daily = [time |-> DailyTime(len), tp |-> v]
    /\ aux_year = Idle /\ Rx5day = Idle /\ count_most_frequent_da = Idle
    /\ data_5_day_sum = Idle /\ mask = Idle
    /\ StdIdle /\ YearIdle /\ IcaIdle
    /\ WindIdle /\ OccIdle /\ StatIdle /\ ResampleIdle /\ RegionIdle
    /\ GapIdle /\ StepIdle /\ SeaIdle

\* calcular_5_dias_maximo(data)
Calcular5DiasMaximo ==
    /\ pc = "rx"
    /\ pc' = "rx_done"
    /\ data_5_day_sum' = RollingSum(tp_daily.tp)
    /\ mask' = [i \in DOMAIN tp_daily.time |->
                   MonthMask([j \in DOMAIN tp_daily.time |->
                                 tp_daily.time[j].month], i)]
    /\ Rx5day' = calcular_5_dias_maximo(tp_daily)
    /\ UNCHANGED <<tp_daily, aux_year, count_most_frequent_da>>
    /\ UNCHANGED <<stdVars, yearVars, icaVars>>
    /\ UNCHANGED <<windVars, occVars, statVars, resampleVars, regionVars>>
    /\ UNCHANGED <<gapVars, stepVars, seaVars>>

SpecRx == InitRx /\ [][Calcular5DiasMaximo]_vars

\* C25: at every record t the rolling sum is the sum of the records t-4..t,
\* and where fewer than 5 records are available (the first four records of
\* a series) it is the sum of the records there are; every record has a
\* sum.
C25_TrailingSum ==
    pc = "rx_done" =>
        /\ DOMAIN data_5_day_sum = DOMAIN tp_daily.tp
        /\ \A t \in DOMAIN tp_daily.tp :
              data_5_day_sum[t] =
                  SumOver(tp_daily.tp,
                          {j \in DOMAIN tp_daily.tp : t - 4 <= j /\ j <= t})

\* C25's case: a sum of three records at the third record, and at the sixth
\* record a sum that leaves the first record out
C25_Witness ==
    /\ pc = "rx_done"
    /\ Len(tp_daily.tp) >= 6
    /\ tp_daily.tp[1] = 2
    /\ data_5_day_sum[3] = tp_daily.tp[1] + tp_daily.tp[2] + tp_daily.tp[3]
    /\ data_5_day_sum[3] = 5
    /\ data_5_day_sum[6] = data_5_day_sum[5] + tp_daily.tp[6] - 2

\* the series has records of month b, all within the first 4 days of b
OnlyEarlyDays(b) ==
    /\ b \in BinsOf(tp_daily)
    /\ \A i \in DOMAIN tp_daily.time :
          Bin(tp_daily.time[i]) = b => tp_daily.time[i].day <= Shift

\* C26 as stated: a month for which the series holds only days within the
\* first 4 days of the month still gets a non-missing Rx5day value.
C26_EarlyMonthHasValue ==
    pc = "rx_done" =>
        \A b \in BinsOf(tp_daily) :
            OnlyEarlyDays(b) => (b \in DOMAIN Rx5day /\ IsFinite(Rx5day[b]))

\* C26 as the code has it: a month for which the series holds only days
\* within the first 4 days of the month gets no Rx5day value: the mask drops
\* every one of its records, whatever their partial sums.
C26_EarlyMonthHasNoValue ==
    pc = "rx_done" =>
        \A b \in BinsOf(tp_daily) :
            OnlyEarlyDays(b) =>
                /\ \A i \in DOMAIN mask : Bin(tp_daily.time[i]) = b => ~mask[i]
                /\ b \in DOMAIN Rx5day => Rx5day[b] = NaN

\* C26's case: a whole first month with an Rx5day value and three rainy days
\* of the second month, whose partial sums lie within the month, without one
C26_Witness ==
    /\ pc = "rx_done"
    /\ Len(tp_daily.tp) = DaysPerMonth + 3
    /\ \A i \in (DaysPerMonth + 1)..(DaysPerMonth + 3) : tp_daily.tp[i] = 2
    /\ OnlyEarlyDays(Bin(DateOf(DaysPerMonth + 1)))
    /\ DOMAIN Rx5day = {Bin(DateOf(1))}
    /\ IsFinite(Rx5day[Bin(DateOf(1))])

-----------------------------------------------------------------------------
(***************************************************************************)
(* The state a call of calcular_interpolacion leaves behind (SpecInterp).  *)
(***************************************************************************)

\* C27: after calcular_interpolacion has processed a year, the state it
\* wrote for that year, datos_maximos_{year}.nc, is the year's own annual
\* CDD value, in the first year and in every later year: it is the count of
\* the year's daily series and holds nothing of the prior-year state read.
C27_CarryIsOwnCount ==
    pc = "interp_done" =>
        /\ files[year] = annual_cdd
        /\ files[year] = annual_cdd_yearly([tp |-> ds_resampled])
        /\ written[Len(written)] = [year |-> year, value |-> annual_cdd]

\* C27's case: a later year with the prior-year state 10 and the annual
\* count 2: the months before December blend the two, the state written
\* is 2
C27_Witness ==
    /\ pc = "interp_done" /\ year # FirstYear
    /\ files[year - 1] = FInt(10) /\ annual_cdd = FInt(2)
    /\ CDD[11] # FInt(2)
    /\ files[year] = FInt(2)

-----------------------------------------------------------------------------
(***************************************************************************)
(* Sea level (sealevel.py, sealevel2.py): decimal_year_to_date and the     *)
(* station loop.  The calendar is the real one.  A decimal year is a year  *)
(* and a fraction <<n, d>> with 0 <= n < d; the products are computed      *)
(* exactly.                                                                *)
(***************************************************************************)

IsLeap(y) == (y % 4 = 0 /\ y % 100 # 0) \/ y % 400 = 0

\* (pd.Timestamp(year + 1, 1, 1) - base_date).days
DaysInYear(y) == IF IsLeap(y) THEN 366 ELSE 365

MonthLengths(y) ==
    <<31, IF IsLeap(y) THEN 29 ELSE 28, 31, 30, 31, 30, 31, 31, 30, 31, 30, 31>>

\* 24 * 3600
SecondsPerDay == 24 * 3600

\* x * days * 24 * 3600 for the fraction x = <<n, d>>, as a whole number of
\* seconds and a rest f/d of a second
ScaledSeconds(x, days) ==
    LET A == x[1] * days
        B == (A % x[2]) * SecondsPerDay
    IN  [whole |-> (A \div x[2]) * SecondsPerDay + (B \div x[2]),
         rest |-> B % x[2]]

\* round() of whole + rest/d: to the nearest integer, a half to the even one
RoundHalfEven(whole, rest, d) ==
    IF 2 * rest < d THEN whole
    ELSE IF 2 * rest > d THEN whole + 1
    ELSE IF whole % 2 = 0 THEN whole ELSE whole + 1

\* round(remainder * days_in_year * 24 * 3600); a remainder above one half
\* is taken from the end of the year, 1 - (d - n)/d
RoundedSeconds(x, days) ==
    IF 2 * x[1] <= x[2]
    THEN LET s == ScaledSeconds(x, days)
         IN  RoundHalfEven(s.whole, s.rest, x[2])
    ELSE LET s == ScaledSeconds(<<x[2] - x[1], x[2]>>, days)
             total == days * SecondsPerDay
         IN  IF s.rest = 0 THEN total - s.whole
             ELSE RoundHalfEven(total - s.whole - 1, x[2] - s.rest, x[2])

\* base_date + pd.Timedelta(seconds=secs), base_date = 1 January of year y
RECURSIVE TimestampAfter(_, _, _, _)
TimestampAfter(y, m, dayidx, secs) ==
    IF m > 12 THEN TimestampAfter(y + 1, 1, dayidx, secs)
    ELSE IF dayidx >= MonthLengths(y)[m]
    THEN TimestampAfter(y, m + 1, dayidx - MonthLengths(y)[m], secs)
    ELSE [year |-> y, month |-> m, day |-> dayidx + 1, second |-> secs]

\* round(decimal_year): the nearest year
NearestYear(dy) == IF 2 * dy.frac[1] >= dy.frac[2] THEN dy.year + 1 ELSE dy.year

\* int(decimal_year): the year of year + n/d with 0 <= n < d
IntPart(dy) == dy.year

\* decimal_year_to_date
decimal_year_to_date(dy) ==
    LET base_year == IntPart(dy)
        remainder == dy.frac
        days_in_year == DaysInYear(base_year)
        secs == RoundedSeconds(remainder, days_in_year)
    IN  TimestampAfter(base_year, 1, secs \div SecondsPerDay,
                       secs % SecondsPerDay)

\* years of the records: a century year that is no leap year, a common
\* year, a century year that is a leap year, a leap year
SeaYears == {1900, 1999, 2000, 2024}

\* year + (m - 0.5)/12, the middle of month m
MidMonth(m) == <<2 * m - 1, 24>>

\* the fractions of the monthly records as the data files print them, to
\* four decimals
PrintedFractions ==
    {<<417, 10000>>, <<1250, 10000>>, <<2083, 10000>>, <<2917, 10000>>,
     <<3750, 10000>>, <<4583, 10000>>, <<5417, 10000>>, <<6250, 10000>>,
     <<7083, 10000>>, <<7917, 10000>>, <<8750, 10000>>, <<9583, 10000>>}

\* fractions 2^-30 after the start and 2^-30 before the end of a year, and
\* the start itself
EdgeFractions == {<<0, 1>>, <<1, 2^30>>, <<2^30 - 1, 2^30>>}

Fractions ==
    {MidMonth(m) : m \in 1..12} \cup PrintedFractions \cup EdgeFractions

InitDecimal ==
    /\ pc = "convert"
    /\ \E y \in SeaYears : \E x \in Fractions :
          decimal_year = [year |-> y, frac |-> x]
    /\ target_date = Idle /\ raw_data = Idle /\ df = Idle
    /\ StdIdle /\ PrecipIdle /\ YearIdle /\ IcaIdle
    /\ WindIdle /\ OccIdle /\ StatIdle /\ ResampleIdle /\ RegionIdle
    /\ GapIdle /\ StepIdle /\ RxIdle

\* one call of decimal_year_to_date
DecimalYearToDate ==
    /\ pc = "convert"
    /\ pc' = "converted"
    /\ target_date' = decimal_year_to_date(decimal_year)
    /\ UNCHANGED <<decimal_year, raw_data, df>>
    /\ UNCHANGED <<stdVars, precipVars, yearVars, icaVars>>
    /\ UNCHANGED <<windVars, occVars, statVars, resampleVars, regionVars>>
    /\ UNCHANGED <<gapVars, stepVars, rxVars>>

SpecDecimal == InitDecimal /\ [][DecimalYearToDate]_vars

\* the decimal year is the middle of month m
IsMidMonth(m) == decimal_year.frac = MidMonth(m)

\* the middle of every month falls in that month
MidMonthInOwnMonth ==
    \A m \in 1..12 :
        IsMidMonth(m) =>
            /\ target_date.year = decimal_year.year
            /\ target_date.month = m

\* C30 as stated: decimal_year_to_date maps every decimal year y to a
\* timestamp inside calendar year floor(y), and each mid-month value
\* year + (m - 0.5)/12 to a date in calendar month m, in leap and non-leap
\* years alike.
C30_InsideYear ==
    pc = "converted" =>
        /\ target_date.year = decimal_year.year
        /\ MidMonthInOwnMonth

\* the fraction is more than half a second before the end of the year
BeforeLastHalfSecond ==
    2 * DaysInYear(decimal_year.year) * SecondsPerDay
        > decimal_year.frac[2] \div (decimal_year.frac[2] - decimal_year.frac[1])

\* C30 as the code has it: decimal_year_to_date maps a decimal year y that
\* lies more than half a second before the end of its year to a timestamp
\* inside calendar year floor(y), and each mid-month value
\* year + (m - 0.5)/12 to a date in calendar month m, in leap and non-leap
\* years alike.
C30_InsideYearBeforeLastHalfSecond ==
    pc = "converted" =>
        /\ BeforeLastHalfSecond => target_date.year = decimal_year.year
        /\ MidMonthInOwnMonth

\* C30's case: the middle of February of a leap year is noon of 15
\* February, the 45.75th day
C30_Witness ==
    /\ pc = "converted"
    /\ IsLeap(decimal_year.year) /\ IsMidMonth(2)
    /\ target_date = [year |-> decimal_year.year, month |-> 2, day |-> 15,
                      second |-> 18 * 3600]

-----------------------------------------------------------------------------
(***************************************************************************)
(* The station loop of sealevel.py (lines 54-77) and sealevel2.py (lines   *)
(* 63-79) for one station: the dates, the cleaning, and the monthly mean,  *)
(* standard deviation and standardized anomaly.                            *)
(***************************************************************************)

\* most rows of a station
NSeaRows == 3

\* the months of the rows
SeaMonths == {1, 2}

\* the year of row i: one row a year
RowYear(i) == 1999 + i

\* Value_mm: null, the three flag values and two sea levels
SeaValues ==
    {NaN, FInt(9999), FInt(-99999), FInt(-9999), FInt(7000), FInt(7100)}

\* a test that also takes -9999 for a flag value
IsFlagValueWide(v) == v = FInt(9999) \/ v = FInt(-99999) \/ v = FInt(-9999)

\* the values that (df["Value_mm"] != 9999) & (df["Value_mm"] != -99999)
\* removes
IsFlagValue(v) == v = FInt(9999) \/ v = FInt(-99999)

\* groupby(month)["Value_mm"].transform("mean") for the rows g
GroupMean(rows, g) ==
    Frac(SumOver([k \in g |-> rows[k].Value_mm[1]], g), Cardinality(g))

\* groupby(month)["Value_mm"].transform("std") for the rows g: the sample
\* standard deviation (ddof=1), NaN for a single row
GroupStd(rows, g) ==
    LET n == Cardinality(g)
        sum == SumOver([k \in g |-> rows[k].Value_mm[1]], g)
        squares == SumOver([k \in g |-> rows[k].Value_mm[1] * rows[k].Value_mm[1]], g)
    IN  Sqrt(Div(FInt(n * squares - sum * sum), FInt(n * (n - 1))))

\* the body of the station loop
station_loop(rows) ==
    LET dated == [i \in DOMAIN rows |->
                     [Date |-> decimal_year_to_date(rows[i].Year),
                      Value_mm |-> rows[i].Value_mm]]
        keep == Ordered({i \in DOMAIN dated :
                            /\ ~IsNaN(dated[i].Value_mm)
                            /\ ~IsFlagValue(dated[i].Value_mm)})
        clean == [j \in DOMAIN keep |-> dated[keep[j]]]
        group(j) == {k \in DOMAIN clean :
                        clean[k].Date.month = clean[j].Date.month}
    IN  [j \in DOMAIN clean |->
            [Date |-> clean[j].Date,
             Value_mm |-> clean[j].Value_mm,
             omega_ref |-> GroupMean(clean, group(j)),
             sigma_ref |-> GroupStd(clean, group(j)),
             Anom_std |->
                 [num |-> FSub(clean[j].Value_mm, GroupMean(clean, group(j))),
                  den |-> GroupStd(clean, group(j))]]]

InitSea ==
    /\ pc = "station"
    /\ \E n \in 1..NSeaRows :
        \E m \in [1..n -> SeaMonths] : \E v \in [1..n -> SeaValues] :
            raw_data = [i \in 1..n |->
                           [Year |-> [year |-> RowYear(i), frac |-> MidMonth(m[i])],
                            Value_mm |-> v[i]]]
    /\ df = Idle /\ decimal_year = Idle /\ target_date = Idle
    /\ StdIdle /\ PrecipIdle /\ YearIdle /\ IcaIdle
    /\ WindIdle /\ OccIdle /\ StatIdle /\ ResampleIdle /\ RegionIdle
    /\ GapIdle /\ StepIdle /\ RxIdle

StationLoop ==
    /\ pc = "station"
    /\ pc' = "station_done"
    /\ df' = station_loop(raw_data)
    /\ UNCHANGED <<raw_data, decimal_year, target_date>>
    /\ UNCHANGED <<stdVars, precipVars, yearVars, icaVars>>
    /\ UNCHANGED <<windVars, occVars, statVars, resampleVars, regionVars>>
    /\ UNCHANGED <<gapVars, stepVars, rxVars>>

SpecSea == InitSea /\ [][StationLoop]_vars

\* the month of raw row i: its decimal year is the middle of that month
RawMonth(i) == (raw_data[i].Year.frac[1] + 1) \div 2

\* the raw rows whose value is none of the values in out
RawWithout(out) == {i \in DOMAIN raw_data : raw_data[i].Value_mm \notin out}

\* the mean of the raw rows in S that are of month m
RawMean(S, m) ==
    LET g == {i \in S : RawMonth(i) = m}
    IN  Frac(SumOver([i \in g |-> raw_data[i].Value_mm[1]], g), Cardinality(g))

\* the sum of the squared differences of the raw rows in S of month m, taken
\* pair by pair: n times the sum of the squared deviations from the mean
PairSquares(S, m) ==
    LET g == {i \in S : RawMonth(i) = m}
        sq(p) == (raw_data[p[1]].Value_mm[1] - raw_data[p[2]].Value_mm[1])
                     * (raw_data[p[1]].Value_mm[1] - raw_data[p[2]].Value_mm[1])
        pairs == {p \in g \X g : p[1] < p[2]}
    IN  SumOver([p \in pairs |-> sq(p)], pairs)

\* df is made of the raw rows in S, in order, with the monthly mean and
\* sample standard deviation of the rows in S and the anomaly from them
StatisticsOver(S) ==
    /\ Len(df) = Cardinality(S)
    /\ \A j \in DOMAIN df :
        LET i == Ordered(S)[j]
            m == RawMonth(i)
            n == Cardinality({k \in S : RawMonth(k) = m})
        IN  /\ df[j].Value_mm = raw_data[i].Value_mm
            /\ df[j].Date.month = m
            /\ df[j].omega_ref = RawMean(S, m)
            /\ df[j].sigma_ref =
                  Sqrt(IF n = 1 THEN NaN ELSE Frac(PairSquares(S, m), n * (n - 1)))
            /\ df[j].Anom_std =
                  [num |-> FSub(raw_data[i].Value_mm, RawMean(S, m)),
                   den |-> df[j].sigma_ref]

=============================================================================
